---------------------------- MODULE Spec2Model ----------------------------
(***************************************************************************)
(* A model of plex_file_renamer.py: the title normalizer, the candidate    *)
(* disambiguator, the template pattern matcher, process_video_file and the *)
(* batch drivers.                                                          *)
(*                                                                         *)
(* Python strings are modelled as sequences of one-character strings, so   *)
(* that lower(), strip(), split() and join() are computed as the code      *)
(* computes them.                           *)
(***************************************************************************)
EXTENDS Integers, Sequences, FiniteSets, TLC

(***************************************************************************)
(* Python string primitives used by the code.                              *)
(***************************************************************************)
UpperLetters ==
    <<"A","B","C","D","E","F","G","H","I","J","K","L","M",
      "N","O","P","Q","R","S","T","U","V","W","X","Y","Z">>

LowerLetters ==
    <<"a","b","c","d","e","f","g","h","i","j","k","l","m",
      "n","o","p","q","r","s","t","u","v","w","x","y","z">>

LowerChar(c) ==
    IF \E i \in 1..26 : UpperLetters[i] = c
    THEN LowerLetters[CHOOSE i \in 1..26 : UpperLetters[i] = c]
    ELSE c

UpperChar(c) ==
    IF \E i \in 1..26 : LowerLetters[i] = c
    THEN UpperLetters[CHOOSE i \in 1..26 : LowerLetters[i] = c]
    ELSE c

\* str.lower()
StrLower(s) == [i \in 1..Len(s) |-> LowerChar(s[i])]

\* str.upper()
StrUpper(s) == [i \in 1..Len(s) |-> UpperChar(s[i])]

IsSpace(c) == c = " "

RECURSIVE LStrip(_)
LStrip(s) == IF s # <<>> /\ IsSpace(Head(s)) THEN LStrip(Tail(s)) ELSE s

RECURSIVE RStrip(_)
RStrip(s) ==
    IF s # <<>> /\ IsSpace(s[Len(s)]) THEN RStrip(SubSeq(s, 1, Len(s) - 1)) ELSE s

\* str.strip()
StrStrip(s) == RStrip(LStrip(s))

RECURSIVE TakeWord(_)
TakeWord(s) ==
    IF s = <<>> \/ IsSpace(Head(s)) THEN <<>> ELSE <<Head(s)>> \o TakeWord(Tail(s))

RECURSIVE DropWord(_)
DropWord(s) ==
    IF s = <<>> \/ IsSpace(Head(s)) THEN s ELSE DropWord(Tail(s))

\* str.split() with no argument: the words between runs of whitespace
RECURSIVE StrSplit(_)
StrSplit(s) ==
    LET t == LStrip(s)
    IN  IF t = <<>> THEN <<>> ELSE <<TakeWord(t)>> \o StrSplit(DropWord(t))

\* ' '.join(words)
RECURSIVE StrJoin(_)
StrJoin(words) ==
    IF words = <<>> THEN <<>>
    ELSE IF Len(words) = 1 THEN words[1]
    ELSE words[1] \o <<" ">> \o StrJoin(Tail(words))

\* words[:-1]
Front(words) == SubSeq(words, 1, Len(words) - 1)

(***************************************************************************)
(* TMDbAPI: the title normalizer.                                          *)
(***************************************************************************)
ROMAN_TO_NUMBER ==
    << << <<"i">>, <<"1">> >>,
       << <<"i","i">>, <<"2">> >>,
       << <<"i","i","i">>, <<"3">> >>,
       << <<"i","v">>, <<"4">> >>,
       << <<"v">>, <<"5">> >>,
       << <<"v","i">>, <<"6">> >>,
       << <<"v","i","i">>, <<"7">> >>,
       << <<"v","i","i","i">>, <<"8">> >>,
       << <<"i","x">>, <<"9">> >>,
       << <<"x">>, <<"1","0">> >> >>

InRomanToNumber(w) == \E k \in DOMAIN ROMAN_TO_NUMBER : ROMAN_TO_NUMBER[k][1] = w

RomanToNumber(w) ==
    ROMAN_TO_NUMBER[CHOOSE k \in DOMAIN ROMAN_TO_NUMBER : ROMAN_TO_NUMBER[k][1] = w][2]

\* NUMBER_TO_ROMAN = {v: k for k, v in ROMAN_TO_NUMBER.items()}
InNumberToRoman(w) == \E k \in DOMAIN ROMAN_TO_NUMBER : ROMAN_TO_NUMBER[k][2] = w

NumberToRoman(w) ==
    ROMAN_TO_NUMBER[CHOOSE k \in DOMAIN ROMAN_TO_NUMBER : ROMAN_TO_NUMBER[k][2] = w][1]

normalize_title_for_matching(title) ==
    LET title_lower == StrStrip(StrLower(title))
        words       == StrSplit(title_lower)
        last_word   == words[Len(words)]
    IN  IF words = <<>> THEN title_lower
        ELSE IF InRomanToNumber(last_word)
             THEN StrJoin(Front(words) \o <<RomanToNumber(last_word)>>)
        ELSE IF InNumberToRoman(last_word)
             THEN StrJoin(Front(words) \o <<NumberToRoman(last_word)>>)
        ELSE title_lower

\* the third test of titles_match dropped: a plausible slip
titles_match_NoBothNormalized(search_title, api_title) ==
    LET search_lower      == StrStrip(StrLower(search_title))
        api_lower         == StrStrip(StrLower(api_title))
        search_normalized == normalize_title_for_matching(search_title)
        api_normalized    == normalize_title_for_matching(api_title)
    IN  \/ search_lower = api_lower
        \/ search_normalized = api_lower

\* the second test made on one side only: a plausible slip
titles_match_OneSided(search_title, api_title) ==
    LET search_lower      == StrStrip(StrLower(search_title))
        api_lower         == StrStrip(StrLower(api_title))
        search_normalized == normalize_title_for_matching(search_title)
        api_normalized    == normalize_title_for_matching(api_title)
    IN  IF search_lower = api_lower THEN TRUE
        ELSE IF search_normalized = api_lower THEN TRUE
        ELSE IF search_normalized = api_normalized /\ search_normalized # search_lower
             THEN TRUE
        ELSE FALSE

titles_match(search_title, api_title) ==
    LET search_lower      == StrStrip(StrLower(search_title))
        api_lower         == StrStrip(StrLower(api_title))
        search_normalized == normalize_title_for_matching(search_title)
        api_normalized    == normalize_title_for_matching(api_title)
    IN  IF search_lower = api_lower THEN TRUE
        ELSE IF search_normalized = api_lower \/ search_lower = api_normalized THEN TRUE
        ELSE IF search_normalized = api_normalized /\ search_normalized # search_lower
             THEN TRUE
        ELSE FALSE

(***************************************************************************)
(* Optional values (Optional[...] in the code) are sequences of length at  *)
(* most one: None is <<>> and a value v is <<v>>.                          *)
(***************************************************************************)
None == <<>>

Some(v) == <<v>>

\* an optional number that is truthy: present and not 0
Truthy(n) == n # None /\ n[1] # 0

Abs(x) == IF x < 0 THEN -x ELSE x

Min(a, b) == IF a <= b THEN a ELSE b

\* list.sort(key=lambda c: c[k]): a stable insertion sort on the field k
RECURSIVE InsertByKey(_, _, _)
InsertByKey(sorted, c, k) ==
    IF sorted = <<>> THEN <<c>>
    ELSE IF Head(sorted)[k] <= c[k]
         THEN <<Head(sorted)>> \o InsertByKey(Tail(sorted), c, k)
    ELSE <<c>> \o sorted

RECURSIVE SortByKey(_, _)
SortByKey(seq, k) ==
    IF seq = <<>> THEN <<>>
    ELSE InsertByKey(SortByKey(Front(seq), k), seq[Len(seq)], k)

(***************************************************************************)
(* TMDbAPI._match_by_duration: the candidate disambiguator.                *)
(*                                                                         *)
(* results is the list of search hits, each [id, title]; title stands for  *)
(* the hit's 'title' (movie) or 'name' (tv) field.  tmdb_details[id] is    *)
(* what get_movie_details / get_tv_details answers for that id: None when  *)
(* the request fails, else a record whose runtime is None when the field   *)
(* is absent and whose episode_run_time is a list.  Durations are minutes. *)
(***************************************************************************)
TopResults == 5

DurationTolerance == 2

Unknown == <<"U","n","k","n","o","w","n">>

\* the runtime the loop derives for one hit (lines 560-571); None if falsy
ItemDuration(media_type, details) ==
    IF media_type = "movie"
    THEN IF details # None /\ details[1].runtime # None /\ details[1].runtime[1] # 0
         THEN Some(details[1].runtime[1])
         ELSE None
    ELSE IF details # None /\ details[1].episode_run_time # <<>>
            /\ details[1].episode_run_time[1] # 0
         THEN Some(details[1].episode_run_time[1])
         ELSE None

\* title = item.get('title') or item.get('name', 'Unknown')
CandidateTitle(item) == IF item.title # <<>> THEN item.title ELSE Unknown

\* the whole list considered, however long
TopOf_All(results) == results

\* results[:5]
TopOf(results) == SubSeq(results, 1, Min(TopResults, Len(results)))

\* the candidates list built from results[:5]
CollectCandidates(results, details, duration_minutes, media_type) ==
    LET top == TopOf(results)
        withDuration ==
            SelectSeq(top, LAMBDA item :
                ItemDuration(media_type, details[item.id]) # None)
    IN  [i \in 1..Len(withDuration) |->
            LET item == withDuration[i]
                item_duration == ItemDuration(media_type, details[item.id])[1]
            IN  [item          |-> item,
                 duration      |-> item_duration,
                 duration_diff |-> Abs(duration_minutes - item_duration),
                 title         |-> CandidateTitle(item)]]

\* every candidate taken for an exact name match, whatever its title
ExactNameMatches_Any(candidates, search_query) == candidates

\* Step 1: the candidates whose title matches the search query
ExactNameMatches(candidates, search_query) ==
    SelectSeq(candidates, LAMBDA candidate :
        search_query # <<>> /\ titles_match(search_query, candidate.title))

\* no tolerance test before the closest-higher rule: the reading of the
\* disambiguator in which a slightly shorter exact match never wins
PickExactMatch_NoTolerance(exact_name_matches, duration_minutes) ==
    LET higher_exact_matches ==
            SelectSeq(exact_name_matches, LAMBDA c : c.duration >= duration_minutes)
    IN  IF higher_exact_matches # <<>>
        THEN SortByKey(higher_exact_matches, "duration")[1].item
        ELSE SortByKey(exact_name_matches, "duration_diff")[1].item

\* the closest-higher rule of Step 2 left out: past the tolerance test the
\* closest exact match wins, above or below the target
PickExactMatch_ClosestOnly(exact_name_matches, duration_minutes) ==
    LET within ==
            SelectSeq(exact_name_matches, LAMBDA c : c.duration_diff <= DurationTolerance)
    IN  IF within # <<>> THEN within[1].item
        ELSE SortByKey(exact_name_matches, "duration_diff")[1].item

\* Step 2 (lines 606-628), for a non-empty exact_name_matches
PickExactMatch(exact_name_matches, duration_minutes) ==
    LET within ==
            SelectSeq(exact_name_matches, LAMBDA c : c.duration_diff <= DurationTolerance)
        higher_exact_matches ==
            SelectSeq(exact_name_matches, LAMBDA c : c.duration >= duration_minutes)
    IN  IF within # <<>> THEN within[1].item
        ELSE IF higher_exact_matches # <<>>
             THEN SortByKey(higher_exact_matches, "duration")[1].item
        ELSE SortByKey(exact_name_matches, "duration_diff")[1].item

\* Step 3 left out: the closest candidate wins, above or below the target
PickByDuration_ClosestOnly(candidates, duration_minutes) ==
    SortByKey(candidates, "duration_diff")[1].item

\* Steps 3 and 4 (lines 630-646), for a non-empty candidates
PickByDuration(candidates, duration_minutes) ==
    LET higher_duration_candidates ==
            SelectSeq(candidates, LAMBDA c : c.duration >= duration_minutes)
    IN  IF higher_duration_candidates # <<>>
        THEN SortByKey(higher_duration_candidates, "duration")[1].item
        ELSE SortByKey(candidates, "duration_diff")[1].item

\* no candidate has a runtime and the search gives up: a plausible slip
NoDurationFallback_GiveUp(results) == None

\* lines 588-590: "No duration information found, using first result"
NoDurationFallback(results) == Some(results[1])

\* the single-result shortcut missing: one hit goes through the duration logic
SmallInputShortcut_OnlyEmpty(results) == results = <<>>

\* lines 547-552: the inputs answered without any detail request
SmallInputShortcut(results) == Len(results) <= 1

\* the result, and the ids whose detail was requested, in request order
match_by_duration(results, details, duration_minutes, media_type, search_query) ==
    IF SmallInputShortcut(results)
    THEN [ret     |-> IF results = <<>> THEN None ELSE Some(results[1]),
          fetched |-> <<>>]
    ELSE
        LET top        == TopOf(results)
            candidates == CollectCandidates(results, details, duration_minutes, media_type)
            exact_name_matches == ExactNameMatches(candidates, search_query)
        IN  [ret |->
                IF candidates = <<>> THEN NoDurationFallback(results)
                ELSE IF exact_name_matches # <<>>
                     THEN Some(PickExactMatch(exact_name_matches, duration_minutes))
                ELSE Some(PickByDuration(candidates, duration_minutes)),
             fetched |-> [i \in 1..Len(top) |-> top[i].id]]

(***************************************************************************)
(* The regular expressions of the code (module re).  A pattern is a        *)
(* sequence of nodes; ReMatches lists the matches that start at pos in     *)
(* the order in which Python's backtracking matcher tries them, so the     *)
(* head of the list is the match re.match reports.  A match is             *)
(* [end, caps]: the position after the match and the groups' spans.        *)
(***************************************************************************)
DigitChars == {"0","1","2","3","4","5","6","7","8","9"}

LetterChars ==
    {UpperLetters[i] : i \in 1..26} \cup {LowerLetters[i] : i \in 1..26}

\* \w
WordChars == LetterChars \cup DigitChars \cup {"_"}

\* \s
SpaceChars == {" "}

\* between lo and hi characters of the set, as many as possible first
ReSet(chars, lo, hi) ==
    [k |-> "set", neg |-> FALSE, chars |-> chars, min |-> lo, max |-> hi, lazy |-> FALSE]

\* between lo and hi characters outside the set
ReNot(chars, lo, hi) ==
    [k |-> "set", neg |-> TRUE, chars |-> chars, min |-> lo, max |-> hi, lazy |-> FALSE]

\* the lazy form, as few as possible first
ReLazy(node) == [node EXCEPT !.lazy = TRUE]

\* x* and x+ have no upper limit; no text of the model is this long
ReMany == 1000

\* the literal text s
ReLit(s) == [i \in 1..Len(s) |-> ReSet({s[i]}, 1, 1)]

\* the literal text s under re.IGNORECASE
ReLitIC(s) == [i \in 1..Len(s) |-> ReSet({LowerChar(s[i]), UpperChar(s[i])}, 1, 1)]

ReBol == [k |-> "bol"]

ReEol == [k |-> "eol"]

ReWordBoundary == [k |-> "wb"]

ReOpen(g) == [k |-> "open", g |-> g]

ReClose(g) == [k |-> "close", g |-> g]

\* (?:body)?
ReOpt(body) == [k |-> "opt", body |-> body]

\* (?:a|b|...)
ReAlt(alts) == [k |-> "alt", alts |-> alts]

\* (?!body)
ReNotAhead(body) == [k |-> "notahead", body |-> body]

\* (?<!^)
ReNotAtStart == [k |-> "notbol"]

\* (body) as group g
ReGroup(g, body) == <<ReOpen(g)>> \o body \o <<ReClose(g)>>

ReCharIn(c, node) == IF node.neg THEN c \notin node.chars ELSE c \in node.chars

\* an argument of a call is a value before the call is made
Evaluated(value) == value = value

\* how many characters from pos on the set node accepts, at most limit
ReRunLen(text, pos, node, limit) ==
    LET last == IF pos + limit - 1 < Len(text) THEN pos + limit - 1 ELSE Len(text)
        Accepted(p) == ReCharIn(text[p], node)
    IN  IF limit = 0 \/ pos > Len(text) \/ ~ Accepted(pos) THEN 0
        ELSE IF limit = 1 THEN 1
        ELSE (CHOOSE p \in (pos + 1)..(last + 1) :
                /\ p > last \/ ~ Accepted(p)
                /\ \A q \in (pos + 1)..(p - 1) : Accepted(q)) - pos

\* the sequences lo..hi of a sequence, one after the other
RECURSIVE ConcatRange(_, _, _)
ConcatRange(seqs, lo, hi) ==
    IF lo > hi THEN <<>>
    ELSE IF lo = hi THEN seqs[lo]
    ELSE ConcatRange(seqs, lo, (lo + hi) \div 2)
            \o ConcatRange(seqs, (lo + hi) \div 2 + 1, hi)

ConcatAll(seqs) == ConcatRange(seqs, 1, Len(seqs))

\* the index of the first element of found that is not None, 0 for none
FirstIndex(found) ==
    LET Least(hits) ==
            IF hits = {} THEN 0 ELSE CHOOSE k \in hits : \A j \in hits : k <= j
    IN  Least({k \in DOMAIN found : found[k] # <<>>})

ReIsWordAt(text, pos) == pos >= 1 /\ pos <= Len(text) /\ text[pos] \in WordChars

RECURSIVE ReMatches(_, _, _, _)
RECURSIVE ReRepeat(_, _, _, _, _, _, _)
RECURSIVE ReAlternatives(_, _, _, _, _)

ReMatches(nodes, text, pos, caps) ==
    LET n    == IF nodes = <<>> THEN [k |-> "end"] ELSE Head(nodes)
        rest == Tail(nodes)
        run  == ReRunLen(text, pos, n, n.max)
    IN  CASE n.k = "end" -> << [end |-> pos, caps |-> caps] >>
          [] n.k = "set" /\ run < n.min -> <<>>
          [] n.k = "set" /\ run = n.min -> ReMatches(rest, text, pos + run, caps)
          [] n.k = "set" /\ run > n.min /\ n.lazy ->
                ReRepeat(rest, text, pos, caps, n.min, run, 1)
          [] n.k = "set" /\ run > n.min /\ ~ n.lazy ->
                ReRepeat(rest, text, pos, caps, run, n.min, -1)
          [] n.k = "bol" /\ pos = 1 -> ReMatches(rest, text, pos, caps)
          [] n.k = "bol" /\ pos # 1 -> <<>>
          [] n.k = "eol" /\ pos = Len(text) + 1 -> ReMatches(rest, text, pos, caps)
          [] n.k = "eol" /\ pos # Len(text) + 1 -> <<>>
          [] n.k = "wb" /\ ReIsWordAt(text, pos - 1) # ReIsWordAt(text, pos) ->
                ReMatches(rest, text, pos, caps)
          [] n.k = "wb" /\ ReIsWordAt(text, pos - 1) = ReIsWordAt(text, pos) -> <<>>
          [] n.k = "notbol" /\ pos # 1 -> ReMatches(rest, text, pos, caps)
          [] n.k = "notbol" /\ pos = 1 -> <<>>
          [] n.k = "open" ->
                ReMatches(rest, text, pos, (n.g :> <<pos, pos>>) @@ caps)
          [] n.k = "close" ->
                ReMatches(rest, text, pos, (n.g :> <<caps[n.g][1], pos>>) @@ caps)
          [] n.k = "opt" ->
                ReMatches(n.body \o rest, text, pos, caps)
                    \o ReMatches(rest, text, pos, caps)
          [] n.k = "alt" ->
                ReAlternatives(n.alts, rest, text, pos, caps)
          [] n.k = "notahead" /\ ReMatches(n.body, text, pos, caps) = <<>> ->
                ReMatches(rest, text, pos, caps)
          [] n.k = "notahead" /\ ReMatches(n.body, text, pos, caps) # <<>> -> <<>>

\* the repetition counts from, from+step, ..., to of a set node, in order
ReRepeat(rest, text, pos, caps, from, to, step) ==
    LET All(found) == CASE Evaluated(found) -> ConcatAll(found)
    IN  All([i \in 1..((to - from) * step + 1) |->
                ReMatches(rest, text, pos + from + (i - 1) * step, caps)])

ReAlternatives(alts, rest, text, pos, caps) ==
    LET All(found) == CASE Evaluated(found) -> ConcatAll(found)
    IN  All([i \in 1..Len(alts) |-> ReMatches(alts[i] \o rest, text, pos, caps)])

\* re.match(pattern, text): None, or [start, end, caps]
ReMatch(nodes, text) ==
    LET Result(found) ==
            IF found = <<>> THEN None
            ELSE Some([start |-> 1, end |-> found[1].end, caps |-> found[1].caps])
    IN  CASE Evaluated(text) -> Result(ReMatches(nodes, text, 1, <<>>))

\* re.search(pattern, text) from position pos on: the leftmost match
ReLeftmost(found) ==
    LET At(start) ==
            IF start = 0 THEN None
            ELSE Some([start |-> start, end |-> found[start][1].end,
                       caps |-> found[start][1].caps])
    IN  At(FirstIndex(found))

ReSearchFrom(nodes, text, pos) ==
    LET Leftmost(found) == CASE Evaluated(found) -> ReLeftmost(found)
    IN  Leftmost([p \in 1..(Len(text) + 1) |->
                    IF p < pos THEN <<>> ELSE ReMatches(nodes, text, p, <<>>)])

ReSearch(nodes, text) == CASE Evaluated(text) -> ReSearchFrom(nodes, text, 1)

\* match.group(g) of a match m in text
ReGroupText(text, m, g) == SubSeq(text, m.caps[g][1], m.caps[g][2] - 1)

\* re.sub(pattern, repl, text) for a pattern that matches no empty text
RECURSIVE ReSubFrom(_, _, _, _)
ReSubFrom(nodes, repl, text, pos) ==
    LET Result(m) ==
            IF m = None THEN SubSeq(text, pos, Len(text))
            ELSE SubSeq(text, pos, m[1].start - 1) \o repl
                    \o ReSubFrom(nodes, repl, text, m[1].end)
    IN  Result(ReSearchFrom(nodes, text, pos))

ReSub(nodes, repl, text) == CASE Evaluated(text) -> ReSubFrom(nodes, repl, text, 1)

\* the first match among the patterns, from the k-th on: None, or the
\* pattern's index and its match
FirstSearch(patterns, text, k) ==
    LET Result(found) ==
            LET At(index) ==
                    IF index = 0 THEN None
                    ELSE Some([index |-> index, match |-> found[index][1]])
            IN  CASE Evaluated(found) -> At(FirstIndex(found))
    IN  CASE Evaluated(text) ->
            Result([j \in 1..Len(patterns) |->
                        IF j < k THEN None ELSE ReSearch(patterns[j], text)])

\* re.sub(pattern, '', text) for each pattern in turn
RECURSIVE RemoveRange(_, _, _, _)
RemoveRange(patterns, text, lo, hi) ==
    CASE Evaluated(text) ->
        IF lo > hi THEN text
        ELSE IF lo = hi THEN ReSub(patterns[lo], <<>>, text)
        ELSE RemoveRange(patterns, RemoveRange(patterns, text, lo, (lo + hi) \div 2),
                         (lo + hi) \div 2 + 1, hi)

RemoveAll(patterns, text, k) == RemoveRange(patterns, text, k, Len(patterns))

(***************************************************************************)
(* More string primitives.                                                 *)
(***************************************************************************)
StartsWith(s, prefix) ==
    Len(prefix) <= Len(s) /\ SubSeq(s, 1, Len(prefix)) = prefix

EndsWith(s, suffix) ==
    Len(suffix) <= Len(s) /\ SubSeq(s, Len(s) - Len(suffix) + 1, Len(s)) = suffix

\* sub in s
StrContains(s, sub) ==
    \E i \in 1..(Len(s) - Len(sub) + 1) : SubSeq(s, i, i + Len(sub) - 1) = sub

\* s.find(c) for a character c, counted from 1; 0 when absent
StrFind(s, c) ==
    IF \E i \in 1..Len(s) : s[i] = c
    THEN CHOOSE i \in 1..Len(s) : s[i] = c /\ \A j \in 1..(i - 1) : s[j] # c
    ELSE 0

\* s.rfind(c), counted from 1; 0 when absent
StrRFind(s, c) ==
    IF \E i \in 1..Len(s) : s[i] = c
    THEN CHOOSE i \in 1..Len(s) : s[i] = c /\ \A j \in (i + 1)..Len(s) : s[j] # c
    ELSE 0

\* s.count(c) for a character c
StrCount(s, c) == Cardinality({i \in 1..Len(s) : s[i] = c})

\* s.split(c) for a character c: the pieces, empty ones kept
RECURSIVE StrSplitOn(_, _)
StrSplitOn(s, c) ==
    LET i == StrFind(s, c)
    IN  IF i = 0 THEN <<s>>
        ELSE <<SubSeq(s, 1, i - 1)>> \o StrSplitOn(SubSeq(s, i + 1, Len(s)), c)

DigitValue(c) == CHOOSE v \in 0..9 : <<"0","1","2","3","4","5","6","7","8","9">>[v + 1] = c

\* int(s) for a string of digits
RECURSIVE StrToInt(_)
StrToInt(s) ==
    IF s = <<>> THEN 0
    ELSE 10 * StrToInt(Front(s)) + DigitValue(s[Len(s)])

\* str(n) for n >= 0
RECURSIVE IntToStr(_)
IntToStr(n) ==
    IF n < 10 THEN << <<"0","1","2","3","4","5","6","7","8","9">>[n + 1] >>
    ELSE IntToStr(n \div 10) \o IntToStr(n % 10)

\* s.zfill(width) for an unsigned s
RECURSIVE ZFill(_, _)
ZFill(s, width) == IF Len(s) >= width THEN s ELSE ZFill(<<"0">> \o s, width)

\* Path(name).stem: the name without its last suffix
Stem(name) ==
    LET i == StrRFind(name, ".")
    IN  IF 1 < i /\ i < Len(name) THEN SubSeq(name, 1, i - 1) ELSE name

\* Path(name).suffix
Suffix(name) ==
    LET i == StrRFind(name, ".")
    IN  IF 1 < i /\ i < Len(name) THEN SubSeq(name, i, Len(name)) ELSE <<>>

(***************************************************************************)
(* Dictionaries are functions from keys (strings) to values; {} is <<>>.   *)
(***************************************************************************)
EmptyDict == <<>>

HasKey(d, key) == key \in DOMAIN d

\* d.update(e)
DictUpdate(d, e) == e @@ d

\* d.get(key) for an optional value: None when absent
DictGet(d, key) == IF HasKey(d, key) THEN Some(d[key]) ELSE None

(***************************************************************************)
(* datetime(year, month, day): whether the constructor accepts the date.   *)
(***************************************************************************)
IsLeapYear(y) == y % 4 = 0 /\ (y % 100 # 0 \/ y % 400 = 0)

DaysInMonth(y, m) ==
    IF m = 2 THEN (IF IsLeapYear(y) THEN 29 ELSE 28)
    ELSE IF m \in {4, 6, 9, 11} THEN 30 ELSE 31

\* every triple of numbers taken for a calendar date
ValidDate_Any(y, m, d) == TRUE

ValidDate(y, m, d) ==
    /\ 1 <= y /\ y <= 9999
    /\ 1 <= m /\ m <= 12
    /\ 1 <= d /\ d <= DaysInMonth(y, m)

(***************************************************************************)
(* PatternMatcher: the template pattern matcher.                           *)
(***************************************************************************)
MONTH_REVERSE ==
    << <<<<"J","a","n">>, <<"0","1">>>>, <<<<"F","e","b">>, <<"0","2">>>>, <<<<"M","a","r">>, <<"0","3">>>>, <<<<"A","p","r">>, <<"0","4">>>>,
       <<<<"M","a","y">>, <<"0","5">>>>, <<<<"J","u","n">>, <<"0","6">>>>, <<<<"J","u","l">>, <<"0","7">>>>, <<<<"A","u","g">>, <<"0","8">>>>,
       <<<<"S","e","p">>, <<"0","9">>>>, <<<<"O","c","t">>, <<"1","0">>>>, <<<<"N","o","v">>, <<"1","1">>>>, <<<<"D","e","c">>, <<"1","2">>>> >>

\* [-.\s]
DateSeparators == {"-", ".", " "}

\* (\d{lo,hi}) as group g
ReDigitsGroup(g, lo, hi) == ReGroup(g, <<ReSet(DigitChars, lo, hi)>>)

ReDateSep == ReSet(DateSeparators, 1, 1)

\* ^(\d{a1,b1})[-.\s](\d{a2,b2})[-.\s](\d{a3,b3})
ReThreeNumbers(a1, b1, a2, b2, a3, b3) ==
    <<ReBol>> \o ReDigitsGroup(1, a1, b1) \o <<ReDateSep>>
        \o ReDigitsGroup(2, a2, b2) \o <<ReDateSep>> \o ReDigitsGroup(3, a3, b3)

\* the date_patterns list of _parse_full_date, in its order
date_patterns ==
    << [re |-> ReThreeNumbers(4, 4, 1, 2, 1, 2) \o <<ReEol>>, date_type |-> "YYYY-MM-DD"],
       [re |-> ReThreeNumbers(1, 2, 1, 2, 4, 4) \o <<ReEol>>, date_type |-> "DD-MM-YYYY"],
       [re |-> ReThreeNumbers(1, 2, 1, 2, 2, 2)
                \o <<ReSet(SpaceChars, 1, ReMany), ReSet({"P","p"}, 1, 1),
                     ReSet({"T","t"}, 1, 1)>>
                \o ReDigitsGroup(4, 1, ReMany) \o <<ReEol>>,
        date_type |-> "DD-MM-YY-PT"],
       [re |-> ReThreeNumbers(1, 2, 1, 2, 2, 2) \o <<ReEol>>, date_type |-> "DD-MM-YY"],
       [re |-> ReThreeNumbers(1, 2, 1, 2, 2, 2) \o <<ReEol>>, date_type |-> "M-DD-YY"],
       [re |-> ReThreeNumbers(1, 2, 1, 2, 4, 4) \o <<ReEol>>, date_type |-> "MM-DD-YYYY"] >>

\* year = f"20{year}" if int(year) < 50 else f"19{year}"
ExpandYear(year) ==
    IF StrToInt(year) < 50 THEN <<"2","0">> \o year ELSE <<"1","9">> \o year

\* the date one pattern of the list reads in text: None when the pattern
\* does not match or the components form no calendar date
ReadDate(text, p) ==
    LET m == ReMatch(p.re, text)
        g(i) == ReGroupText(text, m[1], i)
        dayFirst == p.date_type \in {"DD-MM-YYYY", "DD-MM-YY", "DD-MM-YY-PT"}
        year  == IF p.date_type = "YYYY-MM-DD" THEN g(1)
                 ELSE IF p.date_type \in {"DD-MM-YYYY", "MM-DD-YYYY"} THEN g(3)
                 ELSE ExpandYear(g(3))
        month == IF p.date_type = "YYYY-MM-DD" THEN g(2)
                 ELSE IF dayFirst THEN g(2) ELSE g(1)
        day   == IF p.date_type = "YYYY-MM-DD" THEN g(3)
                 ELSE IF dayFirst THEN g(1) ELSE g(2)
        result ==
            [year     |-> StrToInt(year),
             month    |-> ZFill(month, 2),
             day      |-> ZFill(day, 2),
             air_date |-> year \o <<"-">> \o ZFill(month, 2) \o <<"-">> \o ZFill(day, 2)]
    IN  IF m = None THEN None
        ELSE IF ~ ValidDate(StrToInt(year), StrToInt(month), StrToInt(day)) THEN None
        ELSE IF p.date_type = "DD-MM-YY-PT"
             THEN Some(("part_number" :> StrToInt(g(4))) @@ result)
        ELSE Some(result)

\* the patterns are tried from the k-th on; the first date read is returned
ParseFullDateFrom(text, k) ==
    LET Result(found) ==
            LET At(index) == IF index = 0 THEN None ELSE found[index]
            IN  CASE Evaluated(found) -> At(FirstIndex(found))
    IN  CASE Evaluated(text) ->
            Result([j \in 1..Len(date_patterns) |->
                        IF j < k THEN None ELSE ReadDate(text, date_patterns[j])])

\* format_spec only steers a branch no date_type reaches
parse_full_date(text, format_spec) == ParseFullDateFrom(text, 1)

auto_detect_date(text) == parse_full_date(text, <<"a","u","t","o">>)

parse_date_format(text, pattern) ==
    IF StrContains(pattern, <<"{">>) /\ StrContains(pattern, <<"}">>)
    THEN
        LET format_spec ==
                SubSeq(pattern, StrFind(pattern, "{") + 1, StrFind(pattern, "}") - 1)
        IN  IF format_spec = <<"Y","E","A","R">>
            THEN IF ReMatch(<<ReBol, ReSet(DigitChars, 4, 4), ReEol>>, text) # None
                 THEN Some([year |-> StrToInt(text)])
                 ELSE None
            ELSE IF format_spec = <<"M","O","N","T","H",":","T","H","R","E","E","_","L","E","T","T","E","R">>
            THEN IF \E k \in DOMAIN MONTH_REVERSE : MONTH_REVERSE[k][1] = text
                 THEN Some([month |->
                        MONTH_REVERSE[CHOOSE k \in DOMAIN MONTH_REVERSE :
                                        MONTH_REVERSE[k][1] = text][2]])
                 ELSE None
            ELSE IF format_spec = <<"D","A","Y",":","N","U","M","B","E","R">>
            THEN IF ReMatch(<<ReBol, ReSet(DigitChars, 1, 2), ReEol>>, text) # None
                 THEN Some([day |-> ZFill(text, 2)])
                 ELSE None
            ELSE parse_full_date(text, format_spec)
    ELSE auto_detect_date(text)

\* [._-]+
ReNameSeparators == <<ReSet({".", "_", "-"}, 1, ReMany)>>

\* [.\s_-]+
ReAnySeparators == <<ReSet({".", " ", "_", "-"}, 1, ReMany)>>

\* re.sub(r'[._-]+', ' ', text).strip()
CleanName(text) == StrStrip(ReSub(ReNameSeparators, <<" ">>, text))

\* \s*(\d+) as group 1
ReNumberTail == <<ReSet(SpaceChars, 0, ReMany)>> \o ReDigitsGroup(1, 1, ReMany)

\* [-\s]*
ReDashesSpaces == <<ReSet({"-", " "}, 0, ReMany)>>

\* the part_patterns of _match_pattern_part; those of
\* _match_complex_filename_pattern begin with the same three
part_patterns ==
    << ReDashesSpaces \o ReLitIC(<<"P","T">>) \o ReNumberTail,
       ReDashesSpaces \o ReLitIC(<<"P","a","r","t">>) \o ReNumberTail,
       ReDashesSpaces \o ReLitIC(<<"P">>) \o ReNumberTail >>

complex_part_patterns ==
    part_patterns \o
    << ReLitIC(<<".","P","T">>) \o ReDigitsGroup(1, 1, ReMany),
       ReLitIC(<<".","P","a","r","t">>) \o ReNumberTail,
       ReLitIC(<<".","P">>) \o ReDigitsGroup(1, 1, ReMany),
       <<ReSet(SpaceChars, 1, 1)>> \o ReLitIC(<<"P","a","r","t">>) \o ReNumberTail,
       <<ReSet(SpaceChars, 1, 1)>> \o ReLitIC(<<"P","T">>) \o ReDigitsGroup(1, 1, ReMany) >>

\* the number the first pattern found in text captures, from the k-th on
FindPartNumber(patterns, text, k) ==
    LET Number(part_match) ==
            IF part_match # None
            THEN Some(StrToInt(ReGroupText(text, part_match[1].match, 1)))
            ELSE None
    IN  Number(FirstSearch(patterns, text, k))

\* ignored_result[f'ignored_{key}'] = value for the keys a date result has
IgnoredKey(key) ==
    CASE key = "year" -> "ignored_year"
      [] key = "month" -> "ignored_month"
      [] key = "day" -> "ignored_day"
      [] key = "air_date" -> "ignored_air_date"
      [] key = "part_number" -> "ignored_part_number"

IgnoredResult(date_result) ==
    [ik \in {IgnoredKey(key) : key \in DOMAIN date_result} |->
        date_result[CHOOSE key \in DOMAIN date_result : IgnoredKey(key) = ik]]

\* date_result['part_number'] = part_number, where the date was parsed to
\* an air date and the text names a part
WithPartNumber(date_result, part) ==
    IF date_result # None /\ HasKey(date_result[1], "air_date") /\ part # None
    THEN Some(("part_number" :> part[1]) @@ date_result[1])
    ELSE date_result

\* the date result of a negative pattern is kept under ignored_ keys
IgnoredIf(is_negative, date_result) ==
    IF date_result # None /\ is_negative
    THEN Some(IgnoredResult(date_result[1]))
    ELSE date_result

\* every segment of a path is taken to fit its segment of the template
match_pattern_part_NeverFails(text, pattern_in) == Some(EmptyDict)

match_pattern_part(text, pattern_in) ==
    LET is_negative == EndsWith(pattern_in, <<"?">>)
        pattern == IF is_negative THEN Front(pattern_in) ELSE pattern_in
        pattern_upper == StrUpper(pattern)
    IN  IF pattern_upper = <<"I","G","N","O","R","E">> THEN Some(EmptyDict)
        ELSE IF pattern_upper = <<"S","H","O","W","_","N","A","M","E">>
        THEN IF is_negative THEN Some([ignored_show_name |-> CleanName(text)])
             ELSE Some([show_name |-> CleanName(text)])
        ELSE IF pattern_upper = <<"T","I","T","L","E">>
        THEN IF is_negative THEN Some([ignored_title |-> CleanName(text)])
             ELSE Some([title |-> CleanName(text)])
        ELSE IF \/ StartsWith(pattern_upper, <<"D","A","T","E","_","F","O","R","M","A","T">>)
                \/ (StrContains(pattern_upper, <<"{">>) /\ StrContains(pattern_upper, <<"}">>))
        THEN IgnoredIf(is_negative,
                       WithPartNumber(parse_date_format(text, pattern),
                                      FindPartNumber(part_patterns, text, 1)))
        ELSE IF StrLower(pattern) = StrLower(text) THEN Some(EmptyDict)
        ELSE IF StrStrip(ReSub(ReAnySeparators, <<" ">>, StrLower(pattern)))
                    = StrStrip(ReSub(ReAnySeparators, <<" ">>, StrLower(text)))
        THEN Some(EmptyDict)
        ELSE None

\* the pieces of a filename pattern: the placeholders {..} that
\* re.findall(r'\{([^}]+)\}', pattern) finds and the literal text between
RECURSIVE PatternPieces(_)
PatternPieces(pattern) ==
    IF pattern = <<>> THEN <<>>
    ELSE
        LET rest == Tail(pattern)
            close == StrFind(rest, "}")
        IN  IF Head(pattern) = "{" /\ close > 1
            THEN << [placeholder |-> SubSeq(rest, 1, close - 1)] >>
                    \o PatternPieces(SubSeq(rest, close + 1, Len(rest)))
            ELSE << [literal |-> Head(pattern)] >> \o PatternPieces(rest)

IsPlaceholder(piece) == "placeholder" \in DOMAIN piece

\* placeholders, in the order of the pattern
RECURSIVE PlaceholdersOf(_)
PlaceholdersOf(pieces) ==
    IF pieces = <<>> THEN <<>>
    ELSE IF IsPlaceholder(Head(pieces))
         THEN <<Head(pieces).placeholder>> \o PlaceholdersOf(Tail(pieces))
    ELSE PlaceholdersOf(Tail(pieces))

\* any(date_format in placeholder.upper() for date_format in [...])
IsDatePlaceholder(placeholder) ==
    \E date_format \in {<<"D","D","-","M","M","-","Y","Y">>, <<"M","M","-","D","D","-","Y","Y">>, <<"Y","Y","Y","Y","-","M","M","-","D","D">>} :
        StrContains(StrUpper(placeholder), date_format)

\* [^.\s_-]+
ReNameGroupBody == <<ReNot({".", " ", "_", "-"}, 1, ReMany)>>

\* \d{1,2}[.-]\d{1,2}[.-]\d{2,4}
ReDateGroupBody ==
    <<ReSet(DigitChars, 1, 2), ReSet({".", "-"}, 1, 1), ReSet(DigitChars, 1, 2),
      ReSet({".", "-"}, 1, 1), ReSet(DigitChars, 2, 4)>>

\* the regular expression built from the pieces, the next group being g;
\* the literal text of a pattern is taken to hold no character special to
\* re but the dot, which the code escapes
RECURSIVE ComplexRegex(_, _)
ComplexRegex(pieces, g) ==
    IF pieces = <<>> THEN <<>>
    ELSE IF IsPlaceholder(Head(pieces))
    THEN LET placeholder == Head(pieces).placeholder
             body == IF EndsWith(placeholder, <<"?">>) THEN ReNameGroupBody
                     ELSE IF IsDatePlaceholder(placeholder) THEN ReDateGroupBody
                     ELSE ReNameGroupBody
         IN  ReGroup(g, body) \o ComplexRegex(Tail(pieces), g + 1)
    ELSE ReLit(<<Head(pieces).literal>>) \o ComplexRegex(Tail(pieces), g)

\* a placeholder that occurs twice names two groups alike: re.error
ComplexPatternRaises(pattern) ==
    LET placeholders == PlaceholdersOf(PatternPieces(pattern))
    IN  \E i, j \in DOMAIN placeholders : i < j /\ placeholders[i] = placeholders[j]

\* if date_result: extracted.update(date_result)
DictOrEmpty(date_result) == IF date_result # None THEN date_result[1] ELSE EmptyDict

\* what the g-th placeholder and the groups after it add to extracted
RECURSIVE ExtractGroups(_, _, _, _, _)
ExtractGroups(placeholders, g, filename, match, extracted) ==
    IF g > Len(placeholders) THEN extracted
    ELSE
        LET placeholder == placeholders[g]
            value == ReGroupText(filename, match, g)
            upper == StrUpper(placeholder)
            added ==
                IF EndsWith(placeholder, <<"?">>)
                THEN IF StrUpper(Front(placeholder)) = <<"T","I","T","L","E">>
                     THEN [ignored_title |-> value]
                     ELSE IF StrUpper(Front(placeholder)) = <<"S","H","O","W","_","N","A","M","E">>
                     THEN [ignored_show_name |-> value]
                     ELSE EmptyDict
                ELSE IF IsDatePlaceholder(placeholder)
                THEN DictOrEmpty(parse_date_format(value, <<"{">> \o placeholder \o <<"}">>))
                ELSE IF upper = <<"T","I","T","L","E">> THEN [title |-> value]
                ELSE IF upper = <<"S","H","O","W","_","N","A","M","E">> THEN [show_name |-> value]
                ELSE EmptyDict
        IN  ExtractGroups(placeholders, g + 1, filename, match,
                          DictUpdate(extracted, added))

\* the part number looked for in the text the match left over
RemainingPartNumber(remaining_text) ==
    IF remaining_text # <<>>
    THEN FindPartNumber(complex_part_patterns, remaining_text, 1)
    ELSE None

\* if part_number: extracted['part_number'] = part_number
WithComplexPartNumber(extracted, part_number) ==
    IF part_number # None /\ part_number[1] # 0
    THEN DictUpdate(extracted, [part_number |-> part_number[1]])
    ELSE extracted

\* what the match of the whole pattern yields
ComplexExtracted(filename, placeholders, match) ==
    IF match = None THEN None
    ELSE Some(WithComplexPartNumber(
                ExtractGroups(placeholders, 1, filename, match[1], EmptyDict),
                RemainingPartNumber(SubSeq(filename, match[1].end, Len(filename)))))

ComplexMatch(filename, pieces) ==
    ComplexExtracted(filename, PlaceholdersOf(pieces),
                     ReMatch(ComplexRegex(pieces, 1), filename))

match_complex_filename_pattern(filename, pattern) ==
    ComplexMatch(filename, PatternPieces(pattern))

\* the result left as the segments yield it
process_extracted_data_Unmarked(extracted) == extracted

\* f"{year}-{month}-{day}": the year is a number, month and day are text
process_extracted_data(extracted) ==
    LET dated ==
            IF /\ HasKey(extracted, "year") /\ HasKey(extracted, "month")
               /\ HasKey(extracted, "day") /\ ~ HasKey(extracted, "air_date")
            THEN DictUpdate(extracted,
                    [air_date |-> IntToStr(extracted["year"]) \o <<"-">>
                                    \o extracted["month"] \o <<"-">> \o extracted["day"]])
            ELSE extracted
    IN  IF HasKey(dated, "air_date")
        THEN DictUpdate(dated, [is_date_based |-> TRUE, is_tv_show |-> TRUE])
        ELSE dated

\* the part of parse_pattern_file's loop from the i-th pair on
RECURSIVE MatchParts(_, _, _, _)

\* if part_result is None: return None; else extracted.update(part_result)
RECURSIVE MatchRest(_, _, _, _, _)
MatchRest(path_parts, pattern_parts, i, extracted, result) ==
    IF result = None THEN None
    ELSE MatchParts(path_parts, pattern_parts, i + 1, DictUpdate(extracted, result[1]))

\* the segment matched the way its pattern asks for
PartResult(complex, path_part, pattern_part) ==
    IF complex THEN match_complex_filename_pattern(path_part, pattern_part)
    ELSE match_pattern_part(path_part, pattern_part)

\* pattern_part.replace('.ext', '') for the pattern of the filename
FilenamePattern(is_last, pattern_part) ==
    IF is_last /\ EndsWith(pattern_part, <<".","e","x","t">>)
    THEN SubSeq(pattern_part, 1, Len(pattern_part) - 4)
    ELSE pattern_part

IsComplex(is_last, pattern_part) ==
    is_last /\ (\/ StrContains(pattern_part, <<"{">>)
                \/ StrCount(pattern_part, " ") > 0
                \/ StrCount(pattern_part, ".") > 0)

MatchPart(path_parts, pattern_parts, i, extracted, complex, path_part, pattern_part) ==
    IF complex /\ ComplexPatternRaises(pattern_part) THEN None
    ELSE MatchRest(path_parts, pattern_parts, i, extracted,
                   PartResult(complex, path_part, pattern_part))

MatchParts(path_parts, pattern_parts, i, extracted) ==
    IF i > Len(pattern_parts) \/ i > Len(path_parts) THEN Some(extracted)
    ELSE
        MatchPart(path_parts, pattern_parts, i, extracted,
                  IsComplex(i = Len(path_parts),
                            FilenamePattern(i = Len(path_parts), pattern_parts[i])),
                  IF i = Len(path_parts) THEN Stem(path_parts[i]) ELSE path_parts[i],
                  FilenamePattern(i = Len(path_parts), pattern_parts[i]))

\* file_path.relative_to(root_folder): paths are sequences of segments;
\* None stands for the ValueError of a file outside the root
relative_to(file_path, root_folder) ==
    IF Len(root_folder) <= Len(file_path)
       /\ SubSeq(file_path, 1, Len(root_folder)) = root_folder
    THEN Some(SubSeq(file_path, Len(root_folder) + 1, Len(file_path)))
    ELSE None

\* return self.process_extracted_data(extracted), where every part matched
Processed(extracted) ==
    IF extracted = None THEN None ELSE Some(process_extracted_data(extracted[1]))

MatchPath(rel_path, pattern_parts) ==
    IF rel_path = None THEN None
    ELSE IF Len(pattern_parts) > Len(rel_path[1]) THEN None
    ELSE Processed(MatchParts(rel_path[1], pattern_parts, 1, EmptyDict))

parse_pattern_file(file_path, pattern, root_folder) ==
    MatchPath(relative_to(file_path, root_folder), StrSplitOn(pattern, "/"))

(***************************************************************************)
(* Paths are sequences of segments; the last segment is the file's name.   *)
(***************************************************************************)
\* Path.name: '' for the empty path
PathName(path) == IF path = <<>> THEN <<>> ELSE path[Len(path)]

\* Path.parent
Parent(path) == IF path = <<>> THEN <<>> ELSE Front(path)

(***************************************************************************)
(* PlexFileNamer: the path and filename analyzer.                          *)
(***************************************************************************)
ReSpaces0 == ReSet(SpaceChars, 0, ReMany)

ReSpaces1 == ReSet(SpaceChars, 1, ReMany)

\* . (any character)
ReAnyText == ReNot({}, 0, ReMany)

\* \s*\[.*?\]\s*
ReBracketed ==
    <<ReSpaces0, ReSet({"["}, 1, 1), ReLazy(ReAnyText), ReSet({"]"}, 1, 1), ReSpaces0>>

\* -[A-Z][A-Z0-9]+$
ReReleaseGroup ==
    LET upper == {UpperLetters[i] : i \in 1..26}
    IN  <<ReSet({"-"}, 1, 1), ReSet(upper, 1, 1),
          ReSet(upper \cup DigitChars, 1, ReMany), ReEol>>

\* (?:\s*[-]\s*.*)?$ and (?:\s+[-]\s*.*)?$
ReTrailingText(spaces) ==
    <<ReOpt(<<spaces, ReSet({"-"}, 1, 1), ReSpaces0, ReAnyText>>), ReEol>>

\* \.(\d{4})(?:\.|$)
ReDottedYear ==
    ReLit(<<".">>) \o ReDigitsGroup(1, 4, 4) \o <<ReAlt(<<ReLit(<<".">>), <<ReEol>>>>)>>

\* \s*\((\d{4})\)(?:\s*[-]\s*.*)?$
ReParenYear ==
    <<ReSpaces0>> \o ReLit(<<"(">>) \o ReDigitsGroup(1, 4, 4) \o ReLit(<<")">>)
        \o ReTrailingText(ReSpaces0)

\* \s*-\s*(\d{4})(?:\s*[-]\s*.*)?$
ReDashYear ==
    <<ReSpaces0, ReSet({"-"}, 1, 1), ReSpaces0>> \o ReDigitsGroup(1, 4, 4)
        \o ReTrailingText(ReSpaces0)

\* \s+(\d{4})(?:\s+[-]\s*.*)?$
ReSpaceYear == <<ReSpaces1>> \o ReDigitsGroup(1, 4, 4) \o ReTrailingText(ReSpaces1)

trailing_year_patterns(parentheses_only) ==
    IF parentheses_only THEN <<ReParenYear>>
    ELSE <<ReDottedYear, ReParenYear, ReDashYear, ReSpaceYear>>

\* the season_episode_patterns, in their priority order, with their type
season_episode_patterns ==
    << \* [Ss](\d+)[Ee](\d+)
       <<ReSet({"S","s"}, 1, 1)>> \o ReDigitsGroup(1, 1, ReMany)
            \o <<ReSet({"E","e"}, 1, 1)>> \o ReDigitsGroup(2, 1, ReMany),
       \* (\d+)[xX](\d+)
       ReDigitsGroup(1, 1, ReMany) \o <<ReSet({"x","X"}, 1, 1)>>
            \o ReDigitsGroup(2, 1, ReMany),
       \* [Ss]eason\s*(\d+)\s*[Ee]pisode\s*(\d+)
       <<ReSet({"S","s"}, 1, 1)>> \o ReLit(<<"e","a","s","o","n">>) \o <<ReSpaces0>>
            \o ReDigitsGroup(1, 1, ReMany) \o <<ReSpaces0, ReSet({"E","e"}, 1, 1)>>
            \o ReLit(<<"p","i","s","o","d","e">>) \o <<ReSpaces0>> \o ReDigitsGroup(2, 1, ReMany),
       \* (\d+)\.(\d+)
       ReDigitsGroup(1, 1, ReMany) \o ReLit(<<".">>) \o ReDigitsGroup(2, 1, ReMany),
       \* [Ee](\d+)
       <<ReSet({"E","e"}, 1, 1)>> \o ReDigitsGroup(1, 1, ReMany),
       \* [Ee]pisode\s*(\d+)
       <<ReSet({"E","e"}, 1, 1)>> \o ReLit(<<"p","i","s","o","d","e">>) \o <<ReSpaces0>>
            \o ReDigitsGroup(1, 1, ReMany),
       \* (?<!^)(\d{3})(?!\d)
       <<ReNotAtStart>> \o ReDigitsGroup(1, 3, 3)
            \o <<ReNotAhead(<<ReSet(DigitChars, 1, 1)>>)>> >>

\* the patterns of type 'both' are the first four
BothPatterns == 4

\* \b(?:a|b|...)\b under re.IGNORECASE
ReWordsIC(words) ==
    <<ReWordBoundary, ReAlt([i \in 1..Len(words) |-> ReLitIC(words[i])]), ReWordBoundary>>

quality_patterns ==
    << <<ReWordBoundary, ReSet(DigitChars, 3, 4), ReSet({"p","P"}, 1, 1), ReWordBoundary>>,
       ReWordsIC(<<<<"B","l","u","R","a","y">>, <<"B","L","U","R","A","Y">>, <<"B","R","R","i","p">>, <<"B","D","R","i","p">>, <<"W","E","B","-","D","L">>, <<"W","E","B","R","i","p">>, <<"H","D","T","V">>, <<"D","V","D","R","i","p">>>>),
       ReWordsIC(<<<<"x","2","6","4">>, <<"x","2","6","5">>, <<"h","2","6","4">>, <<"h","2","6","5">>, <<"H","E","V","C">>, <<"X","v","i","D">>, <<"D","i","v","X">>>>),
       ReWordsIC(<<<<"A","A","C">>, <<"A","C","3">>, <<"D","T","S">>, <<"M","P","3">>, <<"F","L","A","C">>>>),
       ReWordsIC(<<<<"P","R","O","P","E","R">>, <<"R","E","P","A","C","K">>, <<"E","X","T","E","N","D","E","D">>, <<"U","N","R","A","T","E","D">>>>) >>

\* (title, year, season, episode): year is a number, season and episode
\* are the digits found, filled to two places
parse_filename(filename, parentheses_only, skip_episode_detection) ==
    LET Titled(year, season, episode, cleaned) ==
            CASE Evaluated(cleaned) ->
                [title   |-> StrStrip(ReSub(<<ReSpaces1>>, <<" ">>, cleaned)),
                 year    |-> year,
                 season  |-> season,
                 episode |-> episode]
        Cleaned(year, season, episode, name2) ==
            CASE Evaluated(name2) ->
                Titled(year, season, episode, RemoveAll(quality_patterns, CleanName(name2), 1))
        Episode(year, name1, found) ==
            LET group(g) == ReGroupText(name1, found[1].match, g)
                coded == Len(group(1)) = 3 /\ group(1)[1] \in {"1","2","3","4","5"}
                season ==
                    IF found = None THEN None
                    ELSE IF found[1].index <= BothPatterns THEN Some(ZFill(group(1), 2))
                    ELSE IF coded THEN Some(ZFill(<<group(1)[1]>>, 2))
                    ELSE None
                episode ==
                    IF found = None THEN None
                    ELSE IF found[1].index <= BothPatterns THEN Some(ZFill(group(2), 2))
                    ELSE IF coded THEN Some(ZFill(SubSeq(group(1), 2, 3), 2))
                    ELSE Some(ZFill(group(1), 2))
                name2 == IF found = None THEN name1
                         ELSE StrStrip(SubSeq(name1, 1, found[1].match.start - 1))
            IN  CASE Evaluated(found) -> Cleaned(year, season, episode, name2)
        Year(year, name1) ==
            CASE Evaluated(name1) ->
                Episode(year, name1,
                        IF skip_episode_detection THEN None
                        ELSE FirstSearch(season_episode_patterns, name1, 1))
        Named(name0, yearFound) ==
            LET year == IF yearFound = None THEN None
                        ELSE Some(StrToInt(ReGroupText(name0, yearFound[1].match, 1)))
                name1 ==
                    IF yearFound = None THEN name0
                    ELSE IF ~ parentheses_only /\ yearFound[1].index = 1
                         THEN SubSeq(name0, 1, yearFound[1].match.start - 1)
                    ELSE StrStrip(SubSeq(name0, 1, yearFound[1].match.start - 1))
            IN  CASE Evaluated(yearFound) -> Year(year, name1)
        Stripped(name0) ==
            CASE Evaluated(name0) ->
                Named(name0, FirstSearch(trailing_year_patterns(parentheses_only), name0, 1))
        Unbracketed(name) ==
            CASE Evaluated(name) -> Stripped(ReSub(ReReleaseGroup, <<>>, name))
    IN  Unbracketed(ReSub(ReBracketed, <<>>, Stem(filename)))

\* ^[Ss](\d+)$, ^[Ss]eason\s*(\d+)$ and ^(\d+)$ under re.IGNORECASE
season_patterns ==
    << <<ReBol>> \o ReLitIC(<<"S">>) \o ReDigitsGroup(1, 1, ReMany) \o <<ReEol>>,
       <<ReBol>> \o ReLitIC(<<"S","e","a","s","o","n">>) \o <<ReSpaces0>> \o ReDigitsGroup(1, 1, ReMany)
            \o <<ReEol>>,
       <<ReBol>> \o ReDigitsGroup(1, 1, ReMany) \o <<ReEol>> >>

\* only the folders S<N> taken for season folders
detect_season_from_folder_OnlyS(file_path) ==
    LET parent_folder == PathName(Parent(file_path))
        found == FirstSearch(<<season_patterns[1]>>, parent_folder, 1)
    IN  IF found = None THEN None
        ELSE Some(StrToInt(ReGroupText(parent_folder, found[1].match, 1)))

detect_season_from_folder(file_path) ==
    LET parent_folder == PathName(Parent(file_path))
        found == FirstSearch(season_patterns, parent_folder, 1)
    IN  IF found = None THEN None
        ELSE Some(StrToInt(ReGroupText(parent_folder, found[1].match, 1)))

extract_show_name_from_path(file_path) ==
    LET parent_folder == PathName(Parent(file_path))
        grandparent == PathName(Parent(Parent(file_path)))
        is_season_folder == FirstSearch(season_patterns, parent_folder, 1) # None
        show_name ==
            CleanName(IF is_season_folder /\ grandparent # <<>> THEN grandparent
                      ELSE parent_folder)
    IN  IF show_name # <<>> THEN Some(show_name) ELSE None

movie_folder_names ==
    {<<"m","o","v","i","e","s">>, <<"m","o","v","i","e">>, <<"f","i","l","m","s">>, <<"f","i","l","m">>, <<"c","i","n","e","m","a">>, <<"m","o","t","i","o","n"," ","p","i","c","t","u","r","e","s">>,
     <<"f","e","a","t","u","r","e"," ","f","i","l","m","s">>, <<"f","e","a","t","u","r","e","s">>, <<"t","h","e","a","t","r","i","c","a","l"," ","r","e","l","e","a","s","e","s">>}

\* lines 1236-1241: whether the file lies in a folder of movies
InMovieFolder(parent_lower, grandparent_lower) ==
    \/ parent_lower \in movie_folder_names
    \/ grandparent_lower \in movie_folder_names
    \/ StrContains(parent_lower, <<"m","o","v","i","e">>)
    \/ StrContains(parent_lower, <<"f","i","l","m">>)

\* a variant that tests the number instead of the text: episode 0 is lost
FinalEpisode_NonZero(episode) ==
    IF episode # None /\ StrToInt(episode[1]) # 0 THEN Some(StrToInt(episode[1])) ELSE None

\* final_episode = int(episode) if episode else None
FinalEpisode(episode) ==
    IF episode # None THEN Some(StrToInt(episode[1])) ELSE None

\* lines 1262-1272: the season of the filename, else for a file with an
\* episode the season of the folder, else season 1
FinalSeason(season, final_episode, season_from_folder) ==
    IF season # None THEN Some(StrToInt(season[1]))
    ELSE IF Truthy(final_episode) /\ Truthy(season_from_folder) THEN season_from_folder
    ELSE IF Truthy(final_episode) THEN Some(1)
    ELSE None

\* lines 1270-1290: the result, for the values parsed from the filename
\* and detected from the folders
Analysis(parsed, final_episode, season_from_folder, show_name_from_path, in_movie_folder) ==
    [show_name |->
        IF final_episode # None /\ ~ in_movie_folder /\ show_name_from_path # None
           /\ ~ (parsed.season # None /\ parsed.title # <<>>)
        THEN show_name_from_path[1]
        ELSE parsed.title,
     season    |-> FinalSeason(parsed.season, final_episode, season_from_folder),
     episode   |-> final_episode,
     year      |-> parsed.year,
     is_tv_show |-> final_episode # None /\ ~ in_movie_folder,
     missing_episode_warning |-> season_from_folder # None /\ final_episode = None,
     season_from_folder |-> season_from_folder,
     in_movie_folder |-> in_movie_folder]

AnalysisOf(file_path, parsed, in_movie_folder) ==
    Analysis(parsed, FinalEpisode(parsed.episode), detect_season_from_folder(file_path),
             extract_show_name_from_path(file_path), in_movie_folder)

AnalysisIn(file_path, parentheses_only, in_movie_folder) ==
    AnalysisOf(file_path,
               parse_filename(PathName(file_path), parentheses_only, in_movie_folder),
               in_movie_folder)

analyze_tv_show(file_path, parentheses_only) ==
    AnalysisIn(file_path, parentheses_only,
               InMovieFolder(StrLower(PathName(Parent(file_path))),
                             StrLower(PathName(Parent(Parent(file_path))))))

(***************************************************************************)
(* PlexFileNamer: the name formatter.                                      *)
(***************************************************************************)
\* [<>:"/\\|?*]
IllegalChars == {"<", ">", ":", "\"", "/", "\\", "|", "?", "*"}

\* re.sub(r'[<>:"/\\|?*]', '', title)
SafeTitle(title) == SelectSeq(title, LAMBDA c : c \notin IllegalChars)

\* f"{n:02d}"
TwoDigits(n) == ZFill(IntToStr(n), 2)

\* f" {{tmdb-{tmdb_id}}}"
TmdbTag(tmdb_id) == <<" ","{","t","m","d","b","-">> \o IntToStr(tmdb_id) \o <<"}">>

\* edition[:32] if len(edition) > 32 else edition
EditionLimit == 32

format_movie_name(title, year, tmdb_id, edition, optional_info) ==
    SafeTitle(title) \o <<" ","(">> \o IntToStr(year) \o <<")">>
        \o (IF Truthy(tmdb_id) THEN TmdbTag(tmdb_id[1]) ELSE <<>>)
        \o (IF edition # None /\ edition[1] # <<>>
            THEN <<" ","{","e","d","i","t","i","o","n","-">>
                    \o SubSeq(edition[1], 1, Min(EditionLimit, Len(edition[1]))) \o <<"}">>
            ELSE <<>>)
        \o (IF optional_info # None /\ optional_info[1] # <<>>
            THEN <<" ","[">> \o optional_info[1] \o <<"]">> ELSE <<>>)

\* \s*\(\d{1,2}:\d{2}\)
ReBroadcastTime ==
    <<ReSpaces0>> \o ReLit(<<"(">>)
        \o <<ReSet(DigitChars, 1, 2), ReSet({":"}, 1, 1), ReSet(DigitChars, 2, 2)>>
        \o ReLit(<<")">>)

\* the " - episode title" part of a tv name
EpisodeTitlePart(episode_title) ==
    IF episode_title # None /\ episode_title[1] # <<>>
    THEN <<" ","-"," ">> \o SafeTitle(ReSub(ReBroadcastTime, <<>>, episode_title[1]))
    ELSE <<>>

\* the "title (year) {tmdb-id}" head of a tv name
ShowPart(show_title, year, tmdb_id) ==
    SafeTitle(show_title)
        \o (IF Truthy(year) THEN <<" ","(">> \o IntToStr(year[1]) \o <<")">> ELSE <<>>)
        \o (IF Truthy(tmdb_id) THEN TmdbTag(tmdb_id[1]) ELSE <<>>)

OptionalPart(optional_info) ==
    IF optional_info # None /\ optional_info[1] # <<>>
    THEN <<" ","[">> \o optional_info[1] \o <<"]">> ELSE <<>>

format_tv_name(show_title, season, episode, episode_title, year, tmdb_id, optional_info) ==
    ShowPart(show_title, year, tmdb_id)
        \o <<" ","-"," ","s">> \o TwoDigits(season) \o <<"e">> \o TwoDigits(episode)
        \o EpisodeTitlePart(episode_title)
        \o OptionalPart(optional_info)

format_date_based_tv_name(show_title, air_date, episode_title, year, tmdb_id,
                          optional_info, part_number) ==
    ShowPart(show_title, year, tmdb_id)
        \o <<" ","-"," ">> \o air_date
        \o EpisodeTitlePart(episode_title)
        \o (IF Truthy(part_number) THEN <<" ","-"," ","p","t">> \o IntToStr(part_number[1]) ELSE <<>>)
        \o OptionalPart(optional_info)

\* [.\s]* and [.\s]+
ReDotsSpaces(lo) == ReSet({".", " "}, lo, ReMany)

\* (?:a|b|...)? under re.IGNORECASE
ReOptWordsIC(words) == ReOpt(<<ReAlt([i \in 1..Len(words) |-> ReLitIC(words[i])])>>)

\* \b...\b around a pattern
ReWord(body) == <<ReWordBoundary>> \o body \o <<ReWordBoundary>>

\* word'?s?[.\s]*tail
RePossessive(word, tail) ==
    ReLitIC(word) \o <<ReSet({"'"}, 0, 1), ReSet({"s", "S"}, 0, 1), ReDotsSpaces(0)>>
        \o ReLitIC(tail)

edition_patterns ==
    << [re |-> RePossessive(<<"d","i","r","e","c","t","o","r">>, <<"c","u","t">>), name |-> <<"D","i","r","e","c","t","o","r","'","s"," ","C","u","t">>],
       [re |-> RePossessive(<<"c","o","l","l","e","c","t","o","r">>, <<"e","d","i","t","i","o","n">>), name |-> <<"C","o","l","l","e","c","t","o","r","'","s"," ","E","d","i","t","i","o","n">>],
       [re |-> ReLitIC(<<"s","p","e","c","i","a","l">>) \o <<ReDotsSpaces(1)>> \o ReLitIC(<<"e","d","i","t","i","o","n">>),
        name |-> <<"S","p","e","c","i","a","l"," ","E","d","i","t","i","o","n">>],
       [re |-> ReLitIC(<<"a","n","n","i","v","e","r","s","a","r","y">>) \o <<ReDotsSpaces(0)>> \o ReLitIC(<<"e","d","i","t","i","o","n">>),
        name |-> <<"A","n","n","i","v","e","r","s","a","r","y"," ","E","d","i","t","i","o","n">>],
       [re |-> ReLitIC(<<"u","l","t","i","m","a","t","e">>) \o <<ReDotsSpaces(0)>> \o ReLitIC(<<"e","d","i","t","i","o","n">>),
        name |-> <<"U","l","t","i","m","a","t","e"," ","E","d","i","t","i","o","n">>],
       [re |-> ReLitIC(<<"d","e","l","u","x","e">>) \o <<ReDotsSpaces(0)>> \o ReLitIC(<<"e","d","i","t","i","o","n">>),
        name |-> <<"D","e","l","u","x","e"," ","E","d","i","t","i","o","n">>],
       [re |-> ReLitIC(<<"t","h","e","a","t","r","i","c","a","l">>)
                \o <<ReDotsSpaces(0), ReOptWordsIC(<<<<"c","u","t">>, <<"v","e","r","s","i","o","n">>, <<"r","e","l","e","a","s","e">>>>)>>,
        name |-> <<"T","h","e","a","t","r","i","c","a","l">>],
       [re |-> ReLitIC(<<"e","x","t","e","n","d","e","d">>)
                \o <<ReDotsSpaces(0), ReOptWordsIC(<<<<"c","u","t">>, <<"v","e","r","s","i","o","n">>, <<"e","d","i","t","i","o","n">>>>)>>,
        name |-> <<"E","x","t","e","n","d","e","d">>],
       [re |-> ReLitIC(<<"u","n","r","a","t","e","d">>)
                \o <<ReDotsSpaces(0), ReOptWordsIC(<<<<"c","u","t">>, <<"v","e","r","s","i","o","n">>, <<"e","d","i","t","i","o","n">>>>)>>,
        name |-> <<"U","n","r","a","t","e","d">>],
       [re |-> ReLitIC(<<"c","r","i","t","e","r","i","o","n">>)
                \o <<ReDotsSpaces(0), ReOptWordsIC(<<<<"c","o","l","l","e","c","t","i","o","n">>>>)>>,
        name |-> <<"C","r","i","t","e","r","i","o","n">>],
       [re |-> ReLitIC(<<"f","i","n","a","l">>) \o <<ReDotsSpaces(0)>> \o ReLitIC(<<"c","u","t">>),
        name |-> <<"F","i","n","a","l"," ","C","u","t">>],
       [re |-> ReLitIC(<<"i","n","t","e","r","n","a","t","i","o","n","a","l">>)
                \o <<ReDotsSpaces(0), ReAlt(<<ReLitIC(<<"c","u","t">>), ReLitIC(<<"v","e","r","s","i","o","n">>)>>)>>,
        name |-> <<"I","n","t","e","r","n","a","t","i","o","n","a","l">>],
       [re |-> ReLitIC(<<"r","e","m","a","s","t","e","r","e","d">>), name |-> <<"R","e","m","a","s","t","e","r","e","d">>],
       [re |-> ReLitIC(<<"o","m","n","i","b","u","s">>), name |-> <<"O","m","n","i","b","u","s">>],
       [re |-> ReLitIC(<<"s","p","e","c","i","a","l">>), name |-> <<"S","p","e","c","i","a","l">>],
       [re |-> ReLitIC(<<"e","x","t","r","a">>), name |-> <<"E","x","t","r","a">>],
       [re |-> ReLitIC(<<"h","i","g","h","l","i","g","h","t","s">>), name |-> <<"H","i","g","h","l","i","g","h","t","s">>],
       [re |-> ReLitIC(<<"c","o","m","p","i","l","a","t","i","o","n">>), name |-> <<"C","o","m","p","i","l","a","t","i","o","n">>] >>

\* the name of the first edition pattern found in name, from the k-th on
FirstEdition(name, k) ==
    LET Result(found) ==
            LET At(index) ==
                    IF index = 0 THEN None ELSE Some(edition_patterns[index].name)
            IN  CASE Evaluated(found) -> At(FirstIndex(found))
    IN  CASE Evaluated(name) ->
            Result([j \in 1..Len(edition_patterns) |->
                        IF j < k THEN None
                        ELSE ReSearch(ReWord(edition_patterns[j].re), name)])

extract_edition_info(filename) == FirstEdition(StrLower(Stem(filename)), 1)

optional_patterns ==
    <<<<"1","0","8","0","p">>, <<"7","2","0","p">>, <<"4","8","0","p">>, <<"4","k">>, <<"2","1","6","0","p">>,
      <<"b","l","u","r","a","y">>, <<"b","l","u","-","r","a","y">>, <<"b","r","r","i","p">>, <<"b","d","r","i","p">>,
      <<"w","e","b","-","d","l">>, <<"w","e","b","d","l">>, <<"w","e","b","r","i","p">>, <<"w","e","b">>,
      <<"h","d","t","v">>, <<"p","d","t","v">>, <<"s","d","t","v">>,
      <<"x","2","6","4">>, <<"x","2","6","5">>, <<"h","2","6","4">>, <<"h","2","6","5">>, <<"h","e","v","c">>,
      <<"a","a","c">>, <<"a","c","3">>, <<"d","t","s">>, <<"m","p","3">>,
      <<"p","r","o","p","e","r">>, <<"r","e","p","a","c","k">>>>

\* the found_info list: each pattern found in name, once, in upper case
FoundInfo(name, k) ==
    LET All(found) == CASE Evaluated(found) -> ConcatAll(found)
    IN  CASE Evaluated(name) ->
            All([j \in 1..Len(optional_patterns) |->
                    IF j >= k /\ ReSearch(ReWord(ReLitIC(optional_patterns[j])), name) # None
                    THEN <<StrUpper(optional_patterns[j])>> ELSE <<>>])

extract_optional_info(filename) ==
    LET found_info == FoundInfo(StrLower(Stem(filename)), 1)
    IN  IF found_info # <<>> THEN Some(StrJoin(found_info)) ELSE None

source_keywords ==
    <<<<"B","L","U","R","A","Y">>, <<"W","E","B","-","D","L">>, <<"W","E","B","D","L">>, <<"W","E","B","R","I","P">>, <<"H","D","T","V">>, <<"P","D","T","V">>, <<"S","D","T","V">>, <<"B","R","R","I","P">>,
      <<"B","D","R","I","P">>, <<"D","V","D">>, <<"D","V","D","R","I","P">>>>

special_keywords == <<<<"P","R","O","P","E","R">>, <<"R","E","P","A","C","K">>>>

\* info_parts with the keyword appended unless the parts hold it already
AppendKeyword(info_parts, keyword) ==
    IF StrContains(StrUpper(StrJoin(info_parts)), keyword) THEN info_parts
    ELSE Append(info_parts, keyword)

\* the source keywords loop: the first keyword in the filename info ends it
AddSource(info_parts, filename_info, k) ==
    LET First(index) ==
            IF index = 0 THEN info_parts
            ELSE AppendKeyword(info_parts, source_keywords[index])
        Claimed(upper) ==
            First(FirstIndex([j \in 1..Len(source_keywords) |->
                    IF j >= k /\ StrContains(upper, source_keywords[j])
                    THEN Some(j) ELSE None]))
    IN  Claimed(StrUpper(filename_info))

\* the special keywords loop runs over every keyword
RECURSIVE AddSpecial(_, _, _)
AddSpecial(info_parts, filename_info, k) ==
    IF k > Len(special_keywords) THEN info_parts
    ELSE AddSpecial(
            IF StrContains(StrUpper(filename_info), special_keywords[k])
            THEN AppendKeyword(info_parts, special_keywords[k]) ELSE info_parts,
            filename_info, k + 1)

\* an optional text that is truthy: present and not empty
TruthyText(t) == t # None /\ t[1] # <<>>

\* what the filename claims, taken as it is
combine_optional_info_FromFilename(filename_info, media_info) == filename_info

\* media_info holds the optional resolution, video_codec and audio_codec
combine_optional_info(filename_info, media_info) ==
    LET p1 == IF TruthyText(media_info.resolution) THEN <<media_info.resolution[1]>>
              ELSE <<>>
        p2 == IF TruthyText(filename_info) THEN AddSource(p1, filename_info[1], 1)
              ELSE p1
        p3 == IF TruthyText(media_info.video_codec)
              THEN Append(p2, media_info.video_codec[1]) ELSE p2
        p4 == IF TruthyText(media_info.audio_codec)
              THEN Append(p3, media_info.audio_codec[1]) ELSE p3
        info_parts == IF TruthyText(filename_info) THEN AddSpecial(p4, filename_info[1], 1)
                      ELSE p4
    IN  IF info_parts # <<>> THEN Some(StrJoin(info_parts)) ELSE None

\* (edition_info, combined_optional_info)
process_optional_info(file_path, media_info) ==
    [edition_info |-> extract_edition_info(PathName(file_path)),
     combined_optional_info |->
        combine_optional_info(extract_optional_info(PathName(file_path)), media_info)]

(***************************************************************************)
(* TMDbAPI: the searches.  A request's answer is None when the request     *)
(* raises requests.exceptions.RequestException; a search answers with the  *)
(* list data['results'] of hits [id, title], a detail request with a       *)
(* record [title, year, runtime, episode_run_time, number_of_seasons].     *)
(***************************************************************************)
\* the title with its last word converted, None when it is no numeral
ConvertedTitle(title) ==
    LET words == StrSplit(title)
        last_word == words[Len(words)]
    IN  IF InRomanToNumber(StrLower(last_word))
        THEN Some(StrJoin(Front(words) \o <<RomanToNumber(StrLower(last_word))>>))
        ELSE IF InNumberToRoman(last_word)
        THEN Some(StrJoin(Front(words) \o <<StrUpper(NumberToRoman(last_word))>>))
        ELSE None

\* words[-1] of a title without words: IndexError
SearchRaises(title) ==
    normalize_title_for_matching(title) # StrLower(title) /\ StrSplit(title) = <<>>

\* the search_queries list: the title, then its converted form
search_queries(title) ==
    IF normalize_title_for_matching(title) # StrLower(title)
       /\ ConvertedTitle(title) # None
    THEN <<title, ConvertedTitle(title)[1]>>
    ELSE <<title>>

\* every hit appended, whether its id is held already or not
AddResults_NoDedup(all_results, hits) == all_results \o hits

\* all_results extended by the hits whose id it does not hold yet
RECURSIVE AddResults(_, _)
AddResults(all_results, hits) ==
    IF hits = <<>> THEN all_results
    ELSE AddResults(
            IF \E i \in DOMAIN all_results : all_results[i].id = Head(hits).id
            THEN all_results ELSE Append(all_results, Head(hits)),
            Tail(hits))

\* a failed request loses the hits of every query: a plausible slip
RECURSIVE CollectResults_FailureLosesAll(_, _, _)
CollectResults_FailureLosesAll(responses, k, all_results) ==
    IF k > Len(responses) THEN all_results
    ELSE IF responses[k] = None THEN <<>>
    ELSE CollectResults_FailureLosesAll(responses, k + 1,
                                        AddResults(all_results, responses[k][1]))

\* the loop over search_queries, from the k-th query on; responses[k] is
\* the answer to the k-th query
RECURSIVE CollectResults(_, _, _)
CollectResults(responses, k, all_results) ==
    IF k > Len(responses) THEN all_results
    ELSE IF responses[k] = None THEN CollectResults(responses, k + 1, all_results)
    ELSE CollectResults(responses, k + 1, AddResults(all_results, responses[k][1]))

\* the choice among all_results; duration_minutes is optional
ChooseResult(all_results, details, duration_minutes, media_type, title) ==
    IF duration_minutes # None
    THEN match_by_duration(all_results, details, duration_minutes[1], media_type, title).ret
    ELSE Some(all_results[1])

search_movie(title, year, duration_minutes, responses, details) ==
    LET all_results == CollectResults(responses, 1, <<>>)
    IN  IF all_results # <<>>
        THEN ChooseResult(all_results, details, duration_minutes, "movie", title)
        ELSE None

\* s.replace(old, '')
RECURSIVE StrRemove(_, _)
StrRemove(s, old) ==
    IF Len(s) < Len(old) \/ old = <<>> THEN s
    ELSE IF SubSeq(s, 1, Len(old)) = old
         THEN StrRemove(SubSeq(s, Len(old) + 1, Len(s)), old)
    ELSE <<Head(s)>> \o StrRemove(Tail(s), old)

\* word.title() for a lower-case word
TitleCase(word) == <<UpperChar(Head(word))>> \o Tail(word)

subtitle_words == <<<<"o","m","n","i","b","u","s">>, <<"s","p","e","c","i","a","l">>, <<"e","x","t","r","a">>, <<"h","i","g","h","l","i","g","h","t","s">>, <<"c","o","m","p","i","l","a","t","i","o","n">>>>

\* title with one subtitle word removed and its spaces cleaned up
SimpleTitle(title, word) ==
    StrJoin(StrSplit(StrStrip(StrRemove(StrRemove(title, TitleCase(word)), word))))

\* the simplified titles search_tv asks for, in the order of subtitle_words
RECURSIVE SimpleQueriesFrom(_, _)
SimpleQueriesFrom(title, k) ==
    IF k > Len(subtitle_words) THEN <<>>
    ELSE (IF /\ StrContains(StrLower(title), subtitle_words[k])
             /\ SimpleTitle(title, subtitle_words[k]) # <<>>
             /\ SimpleTitle(title, subtitle_words[k]) # title
          THEN <<SimpleTitle(title, subtitle_words[k])>> ELSE <<>>)
            \o SimpleQueriesFrom(title, k + 1)

simple_queries(title) == SimpleQueriesFrom(title, 1)

\* the first simplified query that is answered with hits decides
RECURSIVE SimplifiedSearch(_, _, _, _, _)
SimplifiedSearch(simple_responses, k, details, duration_minutes, title) ==
    IF k > Len(simple_responses) THEN None
    ELSE IF simple_responses[k] # None /\ simple_responses[k][1] # <<>>
         THEN ChooseResult(simple_responses[k][1], details, duration_minutes, "tv", title)
    ELSE SimplifiedSearch(simple_responses, k + 1, details, duration_minutes, title)

search_tv(title, year, duration_minutes, responses, simple_responses, details) ==
    LET all_results == CollectResults(responses, 1, <<>>)
    IN  IF all_results # <<>>
        THEN ChooseResult(all_results, details, duration_minutes, "tv", title)
        ELSE SimplifiedSearch(simple_responses, 1, details, duration_minutes, title)

(***************************************************************************)
(* TMDbAPI.find_episode_by_date.  season_responses[n] answers the request  *)
(* for season n: None, or the list of episodes                             *)
(* [episode_number, name, air_date].                                       *)
(***************************************************************************)
\* how many recent seasons are searched first
RecentSeasons == 10

\* list(range(a, b + 1))
Range(a, b) == [i \in 1..(IF b >= a THEN b - a + 1 ELSE 0) |-> a + i - 1]

\* list.reverse()
Reverse(seq) == [i \in 1..Len(seq) |-> seq[Len(seq) + 1 - i]]

SearchOrder(total_seasons) ==
    LET first == IF total_seasons - RecentSeasons > 1
                 THEN total_seasons - RecentSeasons ELSE 1
        search_order == Reverse(Range(first, total_seasons))
    IN  search_order
            \o SelectSeq(Range(1, total_seasons),
                         LAMBDA n : \A i \in DOMAIN search_order : search_order[i] # n)

\* a text in the form %Y-%m-%d that names a calendar date
IsDateText(text) ==
    LET parts == StrSplitOn(text, "-")
    IN  /\ Len(parts) = 3
        /\ Len(parts[1]) = 4
        /\ Len(parts[2]) \in 1..2
        /\ Len(parts[3]) \in 1..2
        /\ \A i \in 1..3 : \A j \in DOMAIN parts[i] : parts[i][j] \in DigitChars
        /\ ValidDate(StrToInt(parts[1]), StrToInt(parts[2]), StrToInt(parts[3]))

\* (datetime.strptime(date, '%Y-%m-%d') + timedelta(days=1)).strftime(...)
NextDay(date) ==
    LET parts == StrSplitOn(date, "-")
        y == StrToInt(parts[1])
        m == StrToInt(parts[2])
        d == StrToInt(parts[3])
        y2 == IF d = DaysInMonth(y, m) /\ m = 12 THEN y + 1 ELSE y
        m2 == IF d < DaysInMonth(y, m) THEN m ELSE IF m = 12 THEN 1 ELSE m + 1
        d2 == IF d < DaysInMonth(y, m) THEN d + 1 ELSE 1
    IN  ZFill(IntToStr(y2), 4) \o <<"-">> \o TwoDigits(m2) \o <<"-">> \o TwoDigits(d2)

\* s.replace('-', ' ')
DashesToSpaces(s) == [i \in 1..Len(s) |-> IF s[i] = "-" THEN " " ELSE s[i]]

\* the texts looked for in the title of an episode aired the next day
TargetDateFormats(target_date) ==
    {target_date, DashesToSpaces(target_date), <<"S","e","p"," ","1","4"," ","2","0","1","5">>}

\* the part patterns for a part number, under re.IGNORECASE
EpisodePartPatterns(part_number) ==
    LET n == ReLitIC(IntToStr(part_number))
    IN  << ReLitIC(<<"P","a","r","t">>) \o <<ReSpaces0>> \o n \o <<ReWordBoundary>>,
           ReLitIC(<<"P","t">>) \o <<ReSpaces0>> \o n \o <<ReWordBoundary>>,
           ReLitIC(<<"P">>) \o n \o <<ReWordBoundary>>,
           <<ReWordBoundary>> \o ReLitIC(<<"P","a","r","t">>) \o <<ReSpaces0>> \o n,
           ReLitIC(<<"(">>) \o n \o ReLitIC(<<")">>) >>

EpisodeFound(season_num, episode) ==
    [season_number  |-> season_num,
     episode_number |-> episode.episode_number,
     episode_title  |-> episode.name]

\* what one season's episode list yields: None to go on to the next season
SeasonEpisode(season_num, episodes, target_date, part_number) ==
    LET sameDay == SelectSeq(episodes, LAMBDA e : e.air_date = target_date)
        nextDay ==
            IF Truthy(part_number) /\ IsDateText(target_date)
            THEN SelectSeq(episodes, LAMBDA e :
                    /\ e.air_date = NextDay(target_date)
                    /\ \E f \in TargetDateFormats(target_date) : StrContains(e.name, f))
            ELSE <<>>
        matching_episodes == sameDay \o nextDay
        withPart ==
            IF Truthy(part_number)
            THEN SelectSeq(matching_episodes, LAMBDA e :
                    FirstSearch(EpisodePartPatterns(part_number[1]), e.name, 1) # None)
            ELSE <<>>
    IN  IF matching_episodes = <<>> THEN None
        ELSE IF withPart # <<>> THEN Some(EpisodeFound(season_num, withPart[1]))
        ELSE Some(EpisodeFound(season_num, matching_episodes[1]))

\* the loop over search_order, from its k-th season on
RECURSIVE SearchSeasons(_, _, _, _, _)
SearchSeasons(search_order, k, season_responses, target_date, part_number) ==
    IF k > Len(search_order) THEN None
    ELSE
        LET season_num == search_order[k]
            response == season_responses[season_num]
            found == SeasonEpisode(season_num, response[1], target_date, part_number)
        IN  IF response # None /\ found # None THEN found
            ELSE SearchSeasons(search_order, k + 1, season_responses,
                               target_date, part_number)

find_episode_by_date(tv_details, season_responses, target_date, part_number) ==
    IF tv_details = None THEN None
    ELSE SearchSeasons(SearchOrder(tv_details[1].number_of_seasons), 1,
                       season_responses, target_date, part_number)

(***************************************************************************)
(* process_video_file, in three stages: the parse of the path (template    *)
(* or analyzer), the metadata search, and the naming of the file.          *)
(***************************************************************************)
\* \.pt(\d+), \.part\s*(\d+), \.p(\d+), \spart\s*(\d+), \spt(\d+)
filename_part_patterns ==
    << ReLit(<<".","p","t">>) \o ReDigitsGroup(1, 1, ReMany),
       ReLit(<<".","p","a","r","t">>) \o ReNumberTail,
       ReLit(<<".","p">>) \o ReDigitsGroup(1, 1, ReMany),
       <<ReSet(SpaceChars, 1, 1)>> \o ReLit(<<"p","a","r","t">>) \o ReNumberTail,
       <<ReSet(SpaceChars, 1, 1)>> \o ReLit(<<"p","t">>) \o ReDigitsGroup(1, 1, ReMany) >>

\* (\d{a1,b1})[-.](\d{a2,b2})[-.](\d{a3,b3})
ReFilenameDate(a1, b1, a2, b2, a3, b3) ==
    ReDigitsGroup(1, a1, b1) \o <<ReSet({"-", "."}, 1, 1)>>
        \o ReDigitsGroup(2, a2, b2) \o <<ReSet({"-", "."}, 1, 1)>>
        \o ReDigitsGroup(3, a3, b3)

filename_date_patterns ==
    << ReFilenameDate(4, 4, 1, 2, 1, 2),
       ReFilenameDate(1, 2, 1, 2, 4, 4),
       <<ReWordBoundary>> \o ReFilenameDate(1, 2, 1, 2, 2, 2)
            \o <<ReWordBoundary>> >>

\* the air_date the code builds from the three groups of a match, and
\* whether datetime.strptime(air_date, '%Y-%m-%d') accepts it
FilenameDate(g1, g2, g3) ==
    LET shortYear == Len(g3) = 2
        yearFirst == ~ shortYear /\ Len(g1) = 4
        year_full == IF shortYear THEN ExpandYear(g3)
                     ELSE IF yearFirst THEN g1 ELSE g3
        month == ZFill(g2, 2)
        day == ZFill(IF yearFirst THEN g3 ELSE g1, 2)
    IN  [air_date |-> year_full \o <<"-">> \o month \o <<"-">> \o day,
         valid |-> /\ Len(year_full) = 4 /\ Len(month) = 2 /\ Len(day) = 2
                   /\ ValidDate(StrToInt(year_full), StrToInt(month), StrToInt(day))]

\* the loop over filename_date_patterns from the k-th on: air_date is
\* assigned before the date is validated and stays when validation fails
RECURSIVE ExtractDate(_, _, _)
ExtractDate(name, k, air_date) ==
    IF k > Len(filename_date_patterns)
    THEN [air_date |-> air_date, is_date_based |-> FALSE]
    ELSE
        LET match == ReSearch(filename_date_patterns[k], name)
            date == FilenameDate(ReGroupText(name, match[1], 1),
                                 ReGroupText(name, match[1], 2),
                                 ReGroupText(name, match[1], 3))
        IN  IF match = None THEN ExtractDate(name, k + 1, air_date)
            ELSE IF date.valid
                 THEN [air_date |-> Some(date.air_date), is_date_based |-> TRUE]
            ELSE ExtractDate(name, k + 1, Some(date.air_date))

\* the reset of a template that matched nothing left out: the analyzer
\* would then not run for the file
PatternKept_AfterFailure(pattern, pattern_data) == TruthyText(pattern)

\* whether the template is still set after the template branch: the code
\* resets it to None when the match gave nothing ('if pattern_data')
PatternKept(pattern, pattern_data) ==
    TruthyText(pattern) /\ pattern_data # None /\ pattern_data[1] # EmptyDict

\* pattern_data.get(key) for a text value, taken when truthy
TextOf(pattern_data, key) ==
    IF HasKey(pattern_data, key) /\ pattern_data[key] # <<>>
    THEN Some(pattern_data[key]) ELSE None

\* lines 1891-1934: the parsed values taken from a template match
TemplateParse(file_path, media_type, show_name, pattern_data) ==
    LET is_date_based ==
            IF HasKey(pattern_data, "is_date_based") THEN pattern_data["is_date_based"]
            ELSE FALSE
    IN  [raised        |-> FALSE,
         title         |-> IF TruthyText(show_name) THEN show_name[1]
                           ELSE IF TextOf(pattern_data, "show_name") # None
                                THEN pattern_data["show_name"]
                           ELSE IF TextOf(pattern_data, "title") # None
                                THEN pattern_data["title"]
                           ELSE Stem(PathName(file_path)),
         year          |-> DictGet(pattern_data, "year"),
         season        |-> None,
         episode       |-> None,
         air_date      |-> DictGet(pattern_data, "air_date"),
         is_date_based |-> is_date_based,
         part_number   |-> DictGet(pattern_data, "part_number"),
         media_type    |-> IF is_date_based THEN "tv" ELSE media_type,
         used_template |-> TRUE,
         used_analyzer |-> FALSE]

\* the filename's season and episode kept although a date was extracted
ClearedByDate_Kept(is_date_based, value) == value

\* lines 2054-2056: a date extracted from the filename clears the season
\* and the episode of the analyzer
ClearedByDate(is_date_based, value) == IF is_date_based THEN None ELSE value

\* lines 1941-2060: the parsed values taken from the analyzer
AnalyzerParsed(tv_analysis, dated, part, media_type, show_name) ==
    LET overridden ==
            /\ ~ TruthyText(show_name)
            /\ media_type \notin {"auto", "tv"}
            /\ tv_analysis.is_tv_show
    IN  [raised        |-> \* f"S{season:02d}E{episode:02d}" of the warning
                           overridden /\ (tv_analysis.season = None
                                          \/ tv_analysis.episode = None),
         title         |-> IF TruthyText(show_name) THEN show_name[1]
                           ELSE tv_analysis.show_name,
         year          |-> tv_analysis.year,
         season        |-> ClearedByDate(dated.is_date_based, tv_analysis.season),
         episode       |-> ClearedByDate(dated.is_date_based, tv_analysis.episode),
         air_date      |-> dated.air_date,
         is_date_based |-> dated.is_date_based,
         part_number   |-> part,
         media_type    |-> IF TruthyText(show_name) THEN "tv"
                           ELSE IF media_type = "auto"
                                THEN (IF tv_analysis.is_tv_show THEN "tv" ELSE "movie")
                           ELSE IF overridden THEN "tv"
                           ELSE media_type,
         used_template |-> FALSE,
         used_analyzer |-> TRUE]

\* lines 2020-2052: the date and the part number looked for in the
\* lowered filename; the date only for a show named by the caller
AnalyzerParseOf(file_path, filename_lower, media_type, parentheses_only, show_name) ==
    AnalyzerParsed(analyze_tv_show(file_path, parentheses_only),
                   IF TruthyText(show_name) THEN ExtractDate(filename_lower, 1, None)
                   ELSE [air_date |-> None, is_date_based |-> FALSE],
                   FindPartNumber(filename_part_patterns, filename_lower, 1),
                   media_type, show_name)

AnalyzerParse(file_path, media_type, parentheses_only, show_name) ==
    AnalyzerParseOf(file_path, StrLower(Stem(PathName(file_path))), media_type,
                    parentheses_only, show_name)

\* lines 1867-1874: the values the locals start with
InitialParse(file_path, media_type, show_name) ==
    [raised        |-> FALSE,
     title         |-> IF TruthyText(show_name) THEN show_name[1]
                       ELSE Stem(PathName(file_path)),
     year          |-> None,
     season        |-> None,
     episode       |-> None,
     air_date      |-> None,
     is_date_based |-> FALSE,
     part_number   |-> None,
     media_type    |-> media_type,
     used_template |-> FALSE,
     used_analyzer |-> FALSE]

\* the template's root: root_folder, else the directory of the file
PatternRoot(file_path, root_folder) ==
    IF root_folder # None THEN root_folder[1] ELSE Parent(file_path)

\* lines 1877-1889: what the template yields for the file; None without
\* a template
pvf_pattern_data(file_path, pattern, root_folder) ==
    IF TruthyText(pattern)
    THEN parse_pattern_file(file_path, pattern[1], PatternRoot(file_path, root_folder))
    ELSE None

\* lines 1867-2060: the template where it is given and matches (line
\* 1891), the analyzer where no template is left (line 1941);
\* pattern_data is what the template yields for the file
pvf_parse(file_path, media_type, parentheses_only, pattern, pattern_data, show_name) ==
        IF TruthyText(pattern) /\ pattern_data # None /\ pattern_data[1] # EmptyDict
        THEN TemplateParse(file_path, media_type, show_name, pattern_data[1])
        ELSE IF ~ PatternKept(pattern, pattern_data)
             THEN AnalyzerParse(file_path, media_type, parentheses_only, show_name)
        ELSE InitialParse(file_path, media_type, show_name)

\* lines 2065-2070 and 2153: the search of the parsed title; the answers
\* of the collaborator are responses, simple_responses and details
pvf_search(parsed, show_name, duration_minutes, responses, simple_responses, details) ==
    IF parsed.media_type = "tv"
    THEN search_tv(parsed.title, IF TruthyText(show_name) THEN None ELSE parsed.year,
                   Some(duration_minutes), responses, simple_responses, details)
    ELSE search_movie(parsed.title, parsed.year, Some(duration_minutes),
                      responses, details)

\* a variant without the return of lines 2096-2098: a date-based file is
\* named though the lookup found no episode
pvf_tv_name_NoSkip(parsed, show, info, answers) ==
    LET details == answers.details
        by_date_wanted ==
            /\ TruthyText(parsed.air_date)
            /\ ~ (Truthy(parsed.season) /\ Truthy(parsed.episode))
        Name(episode_by_date) ==
            LET by_date == by_date_wanted /\ episode_by_date # None
                season == IF by_date THEN Some(episode_by_date[1].season_number)
                          ELSE parsed.season
                episode == IF by_date THEN Some(episode_by_date[1].episode_number)
                           ELSE parsed.episode
                title_by_date == IF by_date THEN Some(episode_by_date[1].episode_title)
                                 ELSE None
                episode_title ==
                    IF Truthy(season) /\ Truthy(episode) /\ ~ TruthyText(title_by_date)
                       /\ answers.episode_details # None
                       /\ answers.episode_details[1].name # <<>>
                    THEN Some(answers.episode_details[1].name)
                    ELSE title_by_date
            IN  IF Truthy(season) /\ Truthy(episode)
                THEN Some(format_tv_name(details[1].title, season[1], episode[1],
                              episode_title, details[1].year, Some(show.id),
                              info.combined_optional_info))
                ELSE IF parsed.is_date_based /\ TruthyText(parsed.air_date)
                THEN Some(format_date_based_tv_name(details[1].title, parsed.air_date[1],
                              episode_title, details[1].year, Some(show.id),
                              info.combined_optional_info, parsed.part_number))
                ELSE Some(format_tv_name(details[1].title, 1, 1, None, details[1].year,
                              Some(show.id), info.combined_optional_info))
    IN  IF details = None THEN None
        ELSE Name(IF by_date_wanted
                  THEN find_episode_by_date(answers.date_details,
                                            answers.season_responses,
                                            parsed.air_date[1], parsed.part_number)
                  ELSE None)

\* lines 2075-2143: the name of an episode file; None when the file is
\* skipped.  info is what process_optional_info yields for the file;
\* answers holds the collaborator's answers: details, date_details and
\* season_responses (find_episode_by_date) and episode_details
pvf_tv_name(parsed, show, info, answers) ==
    LET details == answers.details
        by_date_wanted ==
            /\ TruthyText(parsed.air_date)
            /\ ~ (Truthy(parsed.season) /\ Truthy(parsed.episode))
        Name(episode_by_date) ==
            LET by_date == by_date_wanted /\ episode_by_date # None
                season == IF by_date THEN Some(episode_by_date[1].season_number)
                          ELSE parsed.season
                episode == IF by_date THEN Some(episode_by_date[1].episode_number)
                           ELSE parsed.episode
                title_by_date == IF by_date THEN Some(episode_by_date[1].episode_title)
                                 ELSE None
                episode_title ==
                    IF Truthy(season) /\ Truthy(episode) /\ ~ TruthyText(title_by_date)
                       /\ answers.episode_details # None
                       /\ answers.episode_details[1].name # <<>>
                    THEN Some(answers.episode_details[1].name)
                    ELSE title_by_date
            IN  IF by_date_wanted /\ episode_by_date = None /\ parsed.is_date_based
                THEN None
                ELSE IF Truthy(season) /\ Truthy(episode)
                THEN Some(format_tv_name(details[1].title, season[1], episode[1],
                              episode_title, details[1].year, Some(show.id),
                              info.combined_optional_info))
                ELSE IF parsed.is_date_based /\ TruthyText(parsed.air_date)
                THEN Some(format_date_based_tv_name(details[1].title, parsed.air_date[1],
                              episode_title, details[1].year, Some(show.id),
                              info.combined_optional_info, parsed.part_number))
                ELSE Some(format_tv_name(details[1].title, 1, 1, None, details[1].year,
                              Some(show.id), info.combined_optional_info))
    IN  IF details = None THEN None
        ELSE Name(IF by_date_wanted
                  THEN find_episode_by_date(answers.date_details,
                                            answers.season_responses,
                                            parsed.air_date[1], parsed.part_number)
                  ELSE None)

\* lines 2158-2166: the name of a movie file
pvf_movie_name(parsed, movie, info, answers) ==
    LET details == answers.details
        movie_year == IF details[1].year # None THEN details[1].year[1]
                      ELSE IF Truthy(parsed.year) THEN parsed.year[1] ELSE 0
    IN  IF details = None THEN None
        ELSE Some(format_movie_name(details[1].title, movie_year, Some(movie.id),
                      info.edition_info, info.combined_optional_info))

\* lines 2174-2188: the new path, in the directory of the file and with
\* its suffix
pvf_new_path(file_path, new_name) ==
    Parent(file_path) \o <<new_name \o Suffix(PathName(file_path))>>

(***************************************************************************)
(* The drivers: get_video_files, the checks made before a file is handed   *)
(* to process_video_file, create_backup_file and the handling of the       *)
(* result.  on_disk is the set of the files' paths, saved the backup       *)
(* files: a function from a backup file's path to the original filename    *)
(* it records.                                                             *)
(***************************************************************************)
max_iterations == 10

video_extensions ==
    { <<".","m","p","4">>, <<".","m","k","v">>, <<".","a","v","i">>, <<".","m","o","v">>, <<".","w","m","v">>, <<".","f","l","v">>, <<".","w","e","b","m">>, <<".","m","4","v">>, <<".","m","p","g">>,
      <<".","m","p","e","g">>, <<".","3","g","p">>, <<".","3","g","2">>, <<".","t","s">>, <<".","m","t","s">>, <<".","m","2","t","s">>, <<".","v","o","b">>, <<".","o","g","v">>, <<".","d","i","v","x">>,
      <<".","x","v","i","d">>, <<".","r","m">>, <<".","r","m","v","b">> }

\* the characters in the order of their code points
CodePoints ==
    <<" ","!","#","%","&","'","(",")","+",",","-",".">>
        \o <<"0","1","2","3","4","5","6","7","8","9",":",";","=","?","@">>
        \o UpperLetters \o <<"[","]","^","_">> \o LowerLetters \o <<"{","}","~">>

Ord(c) == CHOOSE i \in DOMAIN CodePoints : CodePoints[i] = c

\* a < b for two strings
RECURSIVE StrLess(_, _)
StrLess(a, b) ==
    IF b = <<>> THEN FALSE
    ELSE IF a = <<>> THEN TRUE
    ELSE IF Head(a) # Head(b) THEN Ord(Head(a)) < Ord(Head(b))
    ELSE StrLess(Tail(a), Tail(b))

\* Path.__lt__: the segments are compared in turn
RECURSIVE PathLess(_, _)
PathLess(p, q) ==
    IF q = <<>> THEN FALSE
    ELSE IF p = <<>> THEN TRUE
    ELSE IF Head(p) # Head(q) THEN StrLess(Head(p), Head(q))
    ELSE PathLess(Tail(p), Tail(q))

\* sorted(video_files)
RECURSIVE SortPaths(_)
SortPaths(paths) ==
    IF paths = {} THEN <<>>
    ELSE LET first == CHOOSE p \in paths : \A q \in paths \ {p} : PathLess(p, q)
         IN  <<first>> \o SortPaths(paths \ {first})

\* path is a file, or a directory that holds f
IsUnder(f, path) == Len(path) <= Len(f) /\ SubSeq(f, 1, Len(path)) = path

get_video_files(path, on_disk) ==
    SortPaths({ f \in on_disk :
                    /\ IsUnder(f, path)
                    /\ StrLower(Suffix(PathName(f))) \in video_extensions })

\* file_path.parent / f"{file_path.stem}.original.txt"
BackupPath(file_path) ==
    Parent(file_path) \o << Stem(PathName(file_path)) \o <<".","o","r","i","g","i","n","a","l",".","t","x","t">> >>

is_already_formatted(file_path, saved) ==
    LET filename == Stem(PathName(file_path))
    IN  /\ ReSearch(<<ReSet(SpaceChars, 1, 1)>> \o ReLit(<<"(">>)
                        \o <<ReSet(DigitChars, 4, 4)>> \o ReLit(<<")">>), filename) # None
        /\ ReSearch(ReLit(<<"{","t","m","d","b","-">>) \o <<ReSet(DigitChars, 1, ReMany)>> \o ReLit(<<"}">>),
                    filename) # None
        /\ BackupPath(file_path) \in DOMAIN saved

\* line.split(":", 1)[1].strip(): a field of a backup file as it is read
\* back from the line it was written to
ReadField(text) == StrStrip(text)

\* lines 1661-1663: the fields written to the backup file of new_path
BackupFile(true_original_filename, new_path) ==
    [original_filename |-> true_original_filename,
     current_filename |-> PathName(new_path)]

\* the backup files after create_backup_file(old_path, new_path): the
\* backup of the old name is read and deleted, the one of the new name
\* records the first original filename and the new name
create_backup_file(old_path, new_path, saved) ==
    LET old_backup_path == BackupPath(old_path)
        true_original_filename ==
            IF /\ old_backup_path \in DOMAIN saved
               /\ ReadField(saved[old_backup_path].original_filename) # <<>>
            THEN ReadField(saved[old_backup_path].original_filename)
            ELSE PathName(old_path)
        backup_path == BackupPath(new_path)
    IN  [b \in (DOMAIN saved \ {old_backup_path}) \cup {backup_path} |->
            IF b = backup_path THEN BackupFile(true_original_filename, new_path)
            ELSE saved[b]]

\* lines 2293-2302 and 2406-2415: whether the file is handed to
\* process_video_file, or skipped as missing or as formatted
BeforeCall(video_file, skip_formatted, on_disk, saved) ==
    IF video_file \notin on_disk THEN "skipped"
    ELSE IF skip_formatted /\ is_already_formatted(video_file, saved) THEN "skipped"
    ELSE "call"

\* lines 2317-2323 and 2430-2436: response is what input() returns
ShouldRename(skip_confirmation, response) ==
    \/ skip_confirmation
    \/ StrLower(StrStrip(response)) \in { <<"y">>, <<"y","e","s">> }

\* a variant without the test of lines 2311 and 2425: the file is renamed
\* though a file exists at the new path
handle_result_Overwrites(video_file, ret, options, response, on_disk, saved) ==
    LET new_path == ret.path
        unchanged == [files |-> on_disk, backups |-> saved, renamed |-> FALSE]
    IN  IF ret.kind # "path" THEN [outcome |-> "failed"] @@ unchanged
        ELSE IF ~ (~ options.dry_run /\ options.rename)
        THEN [outcome |-> "successful"] @@ unchanged
        ELSE IF video_file = new_path THEN [outcome |-> "skipped"] @@ unchanged
        ELSE IF ShouldRename(options.skip_confirmation, response)
        THEN [outcome |-> "successful",
              files |-> (on_disk \ {video_file}) \cup {new_path},
              backups |-> create_backup_file(video_file, new_path, saved),
              renamed |-> TRUE]
        ELSE [outcome |-> "skipped"] @@ unchanged

\* lines 2306-2348 and 2419-2464: what the driver does with the value
\* process_video_file returned (ret.kind is "path" or "none") or with its
\* exception (ret.kind is "raised"); options are the driver's arguments
handle_result(video_file, ret, options, response, on_disk, saved) ==
    LET new_path == ret.path
        unchanged == [files |-> on_disk, backups |-> saved, renamed |-> FALSE]
    IN  IF ret.kind # "path" THEN [outcome |-> "failed"] @@ unchanged
        ELSE IF ~ (~ options.dry_run /\ options.rename)
        THEN [outcome |-> "successful"] @@ unchanged
        ELSE IF video_file = new_path THEN [outcome |-> "skipped"] @@ unchanged
        ELSE IF new_path \in on_disk \/ new_path \in DOMAIN saved
        THEN [outcome |-> "skipped"] @@ unchanged
        ELSE IF ShouldRename(options.skip_confirmation, response)
        THEN [outcome |-> "successful",
              files |-> (on_disk \ {video_file}) \cup {new_path},
              backups |-> create_backup_file(video_file, new_path, saved),
              renamed |-> TRUE]
        ELSE [outcome |-> "skipped"] @@ unchanged

\* successful, failed or skipped incremented
Counted(counters, outcome) == [counters EXCEPT ![outcome] = @ + 1]

(***************************************************************************)
(* Bounds and input sets of the model.                                     *)
(***************************************************************************)
MaxPad == 1

MaxSep == 2

MaxResults == 3

MaxHits == 2

MaxArrivals == 10

MaxServed == 2

Spaces(n) == [i \in 1..n |-> " "]

TitleStems == {<<>>, <<"R","o","c","k","y">>, <<"r","o","c","k","y">>}

TitleTokens == {<<>>, <<"I","I">>, <<"i","i">>, <<"I","I","I">>, <<"2">>, <<"X">>, <<"1","0">>, <<"G","o">>}

MakeTitle(lead, stem, sep, token, trail) ==
    Spaces(lead) \o stem
        \o (IF stem # <<>> /\ token # <<>> THEN Spaces(sep) ELSE <<>>)
        \o token \o Spaces(trail)

Titles ==
    { MakeTitle(lead, stem, sep, token, trail) :
        lead \in 0..MaxPad, stem \in TitleStems, sep \in 1..MaxSep,
        token \in TitleTokens, trail \in 0..MaxPad }

Dune == <<"D","u","n","e">>

Arrakis == <<"A","r","r","a","k","i","s">>

ResultTitles == {Dune, Arrakis}

SearchQueries == {Dune, <<>>}

RuntimeValues == {150, 155, 180, 201}

TargetDurations == {156, 210}

MediaTypes == {"movie", "tv"}

\* the details of a hit whose runtime is r
RuntimeDetail(mt, r) ==
    IF mt = "movie" THEN Some([runtime |-> Some(r), episode_run_time |-> <<>>])
    ELSE Some([runtime |-> None, episode_run_time |-> <<r>>])

\* what the detail request of one hit can answer, per media type
DetailChoices(mt) ==
    IF mt = "movie"
    THEN {None, Some([runtime |-> None, episode_run_time |-> <<>>])}
            \cup { Some([runtime |-> Some(r), episode_run_time |-> <<>>]) :
                    r \in {0} \cup RuntimeValues }
    ELSE {None, Some([runtime |-> None, episode_run_time |-> <<>>])}
            \cup { Some([runtime |-> None, episode_run_time |-> <<r>>]) :
                    r \in {0} \cup RuntimeValues }

(***************************************************************************)
(* The collaborators.  TMDb holds a small catalogue; a request is answered *)
(* from it or fails.  The probe of a file yields its media information or  *)
(* fails, which leaves a duration of 0 and no resolution or codec.         *)
(***************************************************************************)
Detail(title, year, runtime, episode_run_time, number_of_seasons) ==
    [title |-> title, year |-> year, runtime |-> runtime,
     episode_run_time |-> episode_run_time, number_of_seasons |-> number_of_seasons]

Movies ==
    << Detail(<<"D","u","n","e">>, Some(2021), Some(155), <<>>, 0),
       Detail(<<"D","u","n","e">>, Some(1984), Some(137), <<>>, 0),
       Detail(<<"R","o","c","k","y"," ","I","I">>, Some(1979), Some(119), <<>>, 0) >>

Shows ==
    << Detail(<<"C","o","r","o","n","a","t","i","o","n"," ","S","t","r","e","e","t">>, Some(1960), None, <<30>>, 2),
       Detail(<<"D","u","n","e">>, None, None, <<>>, 0) >>

Catalogue(mt) == IF mt = "tv" THEN Shows ELSE Movies

Episode(episode_number, name, air_date) ==
    [episode_number |-> episode_number, name |-> name, air_date |-> air_date]

\* the episodes of each season of each show
Seasons ==
    << << << Episode(1, <<"P","i","l","o","t">>, <<"1","9","6","0","-","1","2","-","0","9">>) >>,
          << Episode(47, <<"M","o","n"," ","S","e","p"," ","1","4"," ","2","0","1","5"," ","P","a","r","t"," ","1">>, <<"2","0","1","5","-","0","9","-","1","4">>),
             Episode(48, <<"M","o","n"," ","S","e","p"," ","1","4"," ","2","0","1","5"," ","P","a","r","t"," ","2">>, <<"2","0","1","5","-","0","9","-","1","4">>) >> >>,
       << >> >>

Hit(mt, id) == [id |-> id, title |-> Catalogue(mt)[id].title]

\* the lists of hits a search can answer with: up to MaxHits consecutive
\* entries of the catalogue
HitLists(mt) ==
    { [i \in 1..n |-> Hit(mt, first + i - 1)] :
        <<first, n>> \in { fn \in (1..Len(Catalogue(mt))) \X (0..MaxHits) :
                            fn[1] + fn[2] - 1 <= Len(Catalogue(mt)) } }

\* what a request can answer when the answer on success is one of data:
\* with the network down every request fails
Answers(up, data) == {None} \cup (IF up THEN {Some(d) : d \in data} ELSE {})

\* the answers to n search requests
SearchAnswers(up, mt, n) == [1..n -> Answers(up, HitLists(mt))]

\* the answers to the detail requests of _match_by_duration, made when
\* there are two hits or more: all answered, none, or all but the first
DetailAnswers(up, mt, hits) ==
    LET all == [id \in 1..Len(Catalogue(mt)) |-> Some(Catalogue(mt)[id])]
        none == [id \in 1..Len(Catalogue(mt)) |-> None]
    IN  IF up /\ Len(hits) >= 2
        THEN {all, none, [all EXCEPT ![hits[1].id] = None]}
        ELSE {none}

\* the answers to the season requests of a show: each fails or lists the
\* season's episodes
SeasonAnswers(up, id) ==
    [1..Len(Seasons[id]) -> {None}]
        \cup (IF up
              THEN { [n \in 1..Len(Seasons[id]) |->
                        IF n \in ok THEN Some(Seasons[id][n]) ELSE None] :
                     ok \in SUBSET (1..Len(Seasons[id])) }
              ELSE {})

\* the answers to the requests made to name a file: the details of the
\* hit; for a show, what the lookup by date asks for when the file has an
\* air date and no season and episode, and the details of the episode
NameAnswers(up, mt, id, by_date) ==
    [details : Answers(up, {Catalogue(mt)[id]}),
     date_details : IF mt = "tv" /\ by_date THEN Answers(up, {Catalogue(mt)[id]})
                    ELSE {None},
     season_responses : IF mt = "tv" /\ by_date THEN SeasonAnswers(up, id)
                        ELSE {<<>>},
     episode_details : IF mt = "tv" THEN Answers(up, {[name |-> <<>>], [name |-> <<"P","i","l","o","t">>]})
                       ELSE {None}]

\* what the probe of a file yields: nothing, or a 156-minute 1080p file
MediaInfos ==
    { [duration_minutes |-> 0, resolution |-> None, video_codec |-> None,
       audio_codec |-> None],
      [duration_minutes |-> 156, resolution |-> Some(<<"1","0","8","0","p">>),
       video_codec |-> Some(<<"H","2","6","4">>), audio_codec |-> Some(<<"A","A","C">>)] }

\* what the user types when asked to confirm a rename
ConfirmAnswers == { <<"Y"," ">>, <<"n">> }

(***************************************************************************)
(* The runs of the model: the arguments of process_path and the files on   *)
(* disk when it is called.                                                 *)
(***************************************************************************)
Arguments(path, media_type, dry_run, rename, skip_confirmation, skip_formatted,
          pattern, root_folder, show_name, parentheses_only) ==
    [path |-> path, media_type |-> media_type, dry_run |-> dry_run,
     rename |-> rename, parentheses_only |-> parentheses_only,
     skip_confirmation |-> skip_confirmation, pattern |-> pattern,
     root_folder |-> root_folder, show_name |-> show_name,
     skip_formatted |-> skip_formatted]

DuneFile == << <<"d">>, <<"D","u","n","e",".","2","0","2","1",".","m","k","v">> >>

RockyFile == << <<"d">>, <<"R","o","c","k","y",".","I","I",".","1","9","7","9",".","m","k","v">> >>

Notes == << <<"d">>, <<"n","o","t","e","s",".","t","x","t">> >>

\* the runs over the directory d: in the modes that rename, over one
\* video file; in the modes that do not, over two
Runs ==
    { [args |-> Arguments(<< <<"d">> >>, "auto", dry_run, rename, skip_confirmation,
                          skip_formatted, None, None, None, FALSE),
       files |-> IF dry_run \/ ~ rename THEN {DuneFile, RockyFile, Notes}
                 ELSE {DuneFile, Notes}] :
        dry_run \in BOOLEAN, rename \in BOOLEAN,
        skip_confirmation \in BOOLEAN, skip_formatted \in BOOLEAN }

\* the file that arrives n-th in the directory of the run
ArrivingFile(path, n) == path \o << <<"c","l","i","p">> \o IntToStr(n) \o <<".","m","k","v">> >>

DatedShow == <<"S","H","O","W","_","N","A","M","E","/","D","A","T","E","_","F","O","R","M","A","T","{","Y","Y","Y","Y","-","M","M","-","D","D","}","/","I","G","N","O","R","E">>

SplitDate == <<"S","H","O","W","_","N","A","M","E","/","{","Y","E","A","R","}","/","{","M","O","N","T","H",":","T","H","R","E","E","_","L","E","T","T","E","R","}","/","{","D","A","Y",":","N","U","M","B","E","R","}","/","I","G","N","O","R","E">>

Templates ==
    { DatedShow, SplitDate, <<"I","G","N","O","R","E","/","I","G","N","O","R","E">>, <<"S","H","O","W","_","N","A","M","E","/","{","T","I","T","L","E","?","}",".","{","D","D","-","M","M","-","Y","Y","}",".","e","x","t">> }

ShowFolders == { <<"C","o","r","o","n","a","t","i","o","n"," ","S","t","r","e","e","t">>, <<"C","o","r","o","n","a","t","i","o","n",".","S","t","r","e","e","t">>, <<"_","C","o","r","r","i","e","-">> }

DateFolders == { <<"2","0","1","5","-","0","9","-","1","4">>, <<"2","0","1","6","-","0","2","-","2","9">>, <<"2","0","1","5","-","0","2","-","3","0">>, <<"2","0","1","5">> }

EpisodeFiles == { <<"e","p","i","s","o","d","e","4","7",".","m","k","v">>, <<"C","o","r","r","i","e",".","1","4",".","0","9",".","1","5",".","p","t","2",".","m","k","v">> }

\* the files of the preview runs that use a template
TemplateFiles ==
    { << <<"r">>, show, date, file >> :
        show \in ShowFolders, date \in DateFolders, file \in EpisodeFiles }
    \cup { << <<"r">>, <<"C","o","r","o","n","a","t","i","o","n",".","S","t","r","e","e","t">>, <<"2","0","1","5">>, <<"S","e","p">>, <<"1","4">>, <<"e","p","i","s","o","d","e","4","7",".","m","k","v">> >>,
           << <<"r">>, <<"e","p","i","s","o","d","e","4","7",".","m","k","v">> >>,
           << <<"r">>, <<"C","o","r","o","n","a","t","i","o","n",".","S","t","r","e","e","t">>, <<"C","o","r","r","i","e",".","1","4",".","0","9",".","1","5",".","p","t","2",".","m","k","v">> >>,
           << <<"r">>, <<"C","o","r","o","n","a","t","i","o","n",".","S","t","r","e","e","t">>, <<"C","o","r","r","i","e",".","3","1",".","0","2",".","1","5",".","m","k","v">> >> }

\* the files of the preview runs that use the analyzer
AnalyzerFiles ==
    { << <<"r">>, <<"C","o","r","r","i","e">>, <<"C","o","r","r","i","e"," ","S","0","1","E","0","5"," ","1","4",".","0","9",".","2","0","1","5",".","m","k","v">> >>,
      << <<"r">>, <<"C","o","r","r","i","e">>, <<"C","o","r","r","i","e",".","2","0","1","5","-","0","9","-","1","4",".","m","k","v">> >>,
      << <<"r">>, <<"C","o","r","o","n","a","t","i","o","n"," ","S","t","r","e","e","t">>, <<"S","e","a","s","o","n"," ","1">>, <<"E","0","5",".","m","k","v">> >>,
      << <<"r">>, <<"S","h","o","w">>, <<"S","h","o","w"," ","E","0","0",".","m","k","v">> >>,
      << <<"r">>, <<"R","o","c","k","y",".","I","I",".","1","9","7","9",".","1","0","8","0","p",".","B","l","u","R","a","y",".","x","2","6","4","-","G","R","P",".","m","k","v">> >>,
      << <<"r">>, <<"D","u","n","e"," ","E","x","t","e","n","d","e","d"," ","C","u","t"," ","(","2","0","2","1",")",".","m","k","v">> >> }

Preview(path, media_type, pattern, root_folder, show_name, parentheses_only) ==
    Arguments(path, media_type, TRUE, FALSE, FALSE, FALSE,
              pattern, root_folder, show_name, parentheses_only)

\* the preview runs: one file each, and a directory of two files of which
\* the template matches one
PreviewRuns ==
    { [args |-> Preview(<< <<"r">> >>, media_type, Some(pattern), root_folder,
                        show_name, FALSE),
       files |-> {file}] :
        file \in TemplateFiles, pattern \in Templates,
        root_folder \in {None, Some(<< <<"r">> >>)},
        show_name \in {None, Some(<<"C","o","r","o","n","a","t","i","o","n"," ","S","t","r","e","e","t">>)},
        media_type \in {"auto", "movie"} }
    \cup
    { [args |-> Preview(<< <<"r">> >>, media_type, None, None, show_name,
                        parentheses_only),
       files |-> {file}] :
        file \in AnalyzerFiles,
        show_name \in {None, Some(<<"C","o","r","o","n","a","t","i","o","n"," ","S","t","r","e","e","t">>)},
        media_type \in {"auto", "movie", "tv"},
        parentheses_only \in BOOLEAN }
    \cup
    { [args |-> Preview(<< <<"r">> >>, "auto", Some(DatedShow), Some(<< <<"r">> >>),
                        None, FALSE),
       files |-> { << <<"r">>, <<"C","o","r","o","n","a","t","i","o","n",".","S","t","r","e","e","t">>, <<"2","0","1","5","-","0","9","-","1","4">>, <<"e","p","i","s","o","d","e","4","7",".","m","k","v">> >>,
                   << <<"r">>, <<"B","o","n","u","s",".","m","k","v">> >> }] }

VARIABLES
    search_title, api_title, tm_pc, tm_result,
    results, tmdb_details, duration_minutes, media_type, last_search_query,
    m_pc, m_ret, m_fetched,
    args, files, backups, network_up, served, arrivals,
    d_pc, video_files, file_index, counts, processed_files, iteration, log,
    pvf_pc, file_path, media_info, pattern_data, parsed, responses, found, pvf_ret,
    fn_pc, fn_in, fn_out

titleVars == <<search_title, api_title, tm_pc, tm_result>>

matchVars ==
    <<results, tmdb_details, duration_minutes, media_type, last_search_query,
      m_pc, m_ret, m_fetched>>

\* the run: its arguments, the disk, the network, the calls of
\* process_video_file it has served and the files that have arrived
worldVars == <<args, files, backups, network_up, served, arrivals>>

\* the locals of the driver; log is the history of the files handed to
\* process_video_file
driverVars ==
    <<d_pc, video_files, file_index, counts, processed_files, iteration, log>>

\* the call of process_video_file
pvfVars ==
    <<pvf_pc, file_path, media_info, pattern_data, parsed, responses, found, pvf_ret>>

\* the call of one function of the program: what it is called with and
\* what it has returned
callVars == <<fn_pc, fn_in, fn_out>>

vars == <<titleVars, callVars, matchVars, worldVars, driverVars, pvfVars>>

TitleIdle ==
    /\ search_title = <<>>
    /\ api_title = <<>>
    /\ tm_pc = "idle"
    /\ tm_result = FALSE

CallIdle ==
    /\ fn_pc = "idle"
    /\ fn_in = <<>>
    /\ fn_out = <<>>

MatchIdle ==
    /\ results = <<>>
    /\ tmdb_details = <<>>
    /\ duration_minutes = 0
    /\ media_type = "movie"
    /\ last_search_query = <<>>
    /\ m_pc = "idle"
    /\ m_ret = None
    /\ m_fetched = <<>>

NoCounts == [successful |-> 0, failed |-> 0, skipped |-> 0]

NoReturn == [kind |-> "pending", path |-> <<>>]

NoMediaInfo == CHOOSE mi \in MediaInfos : mi.duration_minutes = 0

NoResponses == [queries |-> <<>>, simple |-> <<>>]

PvfIdle ==
    /\ pvf_pc = "idle"
    /\ file_path = <<>>
    /\ media_info = NoMediaInfo
    /\ pattern_data = None
    /\ parsed = None
    /\ responses = NoResponses
    /\ found = None
    /\ pvf_ret = NoReturn

DriverIdle(pc) ==
    /\ d_pc = pc
    /\ video_files = <<>>
    /\ file_index = 1
    /\ counts = NoCounts
    /\ processed_files = {}
    /\ iteration = 0
    /\ log = <<>>

RunIdle ==
    /\ args = Arguments(<<>>, "auto", FALSE, FALSE, FALSE, FALSE, None, None, None, FALSE)
    /\ files = {}
    /\ backups = <<>>
    /\ network_up = TRUE
    /\ served = 0
    /\ arrivals = 0
    /\ DriverIdle("idle")
    /\ PvfIdle

(***************************************************************************)
(* SpecTitles: titles_match applied to a pair of titles.                   *)
(***************************************************************************)
InitTitles ==
    /\ search_title \in Titles
    /\ api_title \in Titles
    /\ tm_pc = "call"
    /\ tm_result = FALSE
    /\ MatchIdle
    /\ CallIdle
    /\ RunIdle

TitlesMatchCall ==
    /\ tm_pc = "call"
    /\ tm_result' = titles_match(search_title, api_title)
    /\ tm_pc' = "done"
    /\ UNCHANGED <<search_title, api_title, callVars, matchVars, worldVars, driverVars, pvfVars>>

NextTitles == TitlesMatchCall

SpecTitles == InitTitles /\ [][NextTitles]_vars

(***************************************************************************)
(* SpecMatch: _match_by_duration applied to a list of search hits.  The    *)
(* hits are appended one by one (id = position), then the call is made.    *)
(***************************************************************************)
InitMatch ==
    /\ results = <<>>
    /\ tmdb_details = <<>>
    /\ duration_minutes \in TargetDurations
    /\ media_type \in MediaTypes
    /\ last_search_query \in SearchQueries
    /\ m_pc = "build"
    /\ m_ret = None
    /\ m_fetched = <<>>
    /\ TitleIdle
    /\ CallIdle
    /\ RunIdle

AddResult ==
    /\ m_pc = "build"
    /\ Len(results) < MaxResults
    /\ \E title \in ResultTitles, details \in DetailChoices(media_type) :
        /\ results' = Append(results, [id |-> Len(results) + 1, title |-> title])
        /\ tmdb_details' = Append(tmdb_details, details)
    /\ UNCHANGED <<duration_minutes, media_type, last_search_query,
                   m_pc, m_ret, m_fetched, titleVars, callVars, worldVars, driverVars, pvfVars>>

MatchByDurationCall ==
    /\ m_pc = "build"
    /\ LET r == match_by_duration(results, tmdb_details, duration_minutes,
                                  media_type, last_search_query)
       IN  /\ m_ret' = r.ret
           /\ m_fetched' = r.fetched
    /\ m_pc' = "done"
    /\ UNCHANGED <<results, tmdb_details, duration_minutes, media_type,
                   last_search_query, titleVars, callVars, worldVars, driverVars, pvfVars>>

NextMatch == AddResult \/ MatchByDurationCall

SpecMatch == InitMatch /\ [][NextMatch]_vars

(***************************************************************************)
(* SpecLongList: _match_by_duration applied to lists longer than the five  *)
(* hits it considers.  Each hit is one of a few kinds.                     *)
(***************************************************************************)
MaxLongResults == 7

\* a hit titled like the query within 2 minutes of the target, one of
\* another title far from it, and each of the two without a runtime
LongKinds(mt) ==
    { [title |-> title, details |-> details] :
        <<title, details>> \in
            { <<Dune, RuntimeDetail(mt, 155)>>, <<Arrakis, RuntimeDetail(mt, 201)>>,
              <<Dune, None>>, <<Arrakis, RuntimeDetail(mt, 0)>> } }

InitLongList ==
    /\ results = <<>>
    /\ tmdb_details = <<>>
    /\ duration_minutes = 156
    /\ media_type \in MediaTypes
    /\ last_search_query = Dune
    /\ m_pc = "build"
    /\ m_ret = None
    /\ m_fetched = <<>>
    /\ TitleIdle
    /\ CallIdle
    /\ RunIdle

AddLongResult ==
    /\ m_pc = "build"
    /\ Len(results) < MaxLongResults
    /\ \E kind \in LongKinds(media_type) :
        /\ results' = Append(results, [id |-> Len(results) + 1, title |-> kind.title])
        /\ tmdb_details' = Append(tmdb_details, kind.details)
    /\ UNCHANGED <<duration_minutes, media_type, last_search_query,
                   m_pc, m_ret, m_fetched, titleVars, callVars, worldVars, driverVars, pvfVars>>

NextLongList == AddLongResult \/ MatchByDurationCall

SpecLongList == InitLongList /\ [][NextLongList]_vars

(***************************************************************************)
(* process_video_file as a process: called by a driver for file_path, it   *)
(* probes the file and parses its path, searches TMDb, names the file and  *)
(* returns.  Each step takes the answers of the collaborators it asks.     *)
(***************************************************************************)
Returns(kind, path) ==
    /\ pvf_pc' = "returned"
    /\ pvf_ret' = [kind |-> kind, path |-> path]

\* lines 1843-2060
PvfParse ==
    /\ pvf_pc = "called"
    /\ IF file_path \notin files
       THEN /\ Returns("none", <<>>)
            /\ UNCHANGED <<media_info, pattern_data, parsed>>
       ELSE /\ \E probed \in MediaInfos : media_info' = probed
            /\ pattern_data' = pvf_pattern_data(file_path, args.pattern, args.root_folder)
            /\ parsed' = Some(pvf_parse(file_path, args.media_type, args.parentheses_only,
                                        args.pattern, pattern_data', args.show_name))
            /\ IF parsed'[1].raised THEN Returns("raised", <<>>)
               ELSE pvf_pc' = "search" /\ UNCHANGED pvf_ret
    /\ UNCHANGED <<file_path, responses, found>>
    /\ UNCHANGED <<titleVars, callVars, matchVars, worldVars, driverVars>>

\* the network answers the requests of the first MaxServed calls of
\* process_video_file that come to search, where it is up at all
Serving(n) == network_up /\ n < MaxServed

\* lines 2062-2072 and 2147-2155, 2170-2172
PvfSearch ==
    /\ pvf_pc = "search"
    /\ served' = served + 1
    /\ LET p == parsed[1]
           mt == IF p.media_type = "tv" THEN "tv" ELSE "movie"
           up == Serving(served)
       IN  IF SearchRaises(p.title)
           THEN /\ Returns("raised", <<>>)
                /\ UNCHANGED <<responses, found>>
           ELSE \E queries \in SearchAnswers(up, mt, Len(search_queries(p.title))) :
                LET hits == CollectResults(queries, 1, <<>>)
                IN  \E simple \in SearchAnswers(up, mt,
                                        IF mt = "tv" /\ hits = <<>>
                                        THEN Len(simple_queries(p.title)) ELSE 0),
                       details \in DetailAnswers(up, mt, hits) :
                        /\ responses' = [queries |-> queries, simple |-> simple]
                        /\ found' = pvf_search(p, args.show_name,
                                               media_info.duration_minutes,
                                               queries, simple, details)
                        /\ IF found' = None THEN Returns("none", <<>>)
                           ELSE pvf_pc' = "name" /\ UNCHANGED pvf_ret
    /\ UNCHANGED <<file_path, media_info, pattern_data, parsed>>
    /\ UNCHANGED <<titleVars, callVars, matchVars, driverVars>>
    /\ UNCHANGED <<args, files, backups, network_up, arrivals>>

\* lines 2189-2196: the new path, where a name was made
Named(path, new_name) ==
    IF new_name = None THEN [kind |-> "none", path |-> <<>>]
    ELSE [kind |-> "path", path |-> pvf_new_path(path, new_name[1])]

\* lines 2075-2146 and 2158-2188
PvfName ==
    /\ pvf_pc = "name"
    /\ LET p == parsed[1]
           mt == IF p.media_type = "tv" THEN "tv" ELSE "movie"
           by_date == /\ TruthyText(p.air_date)
                      /\ ~ (Truthy(p.season) /\ Truthy(p.episode))
       IN  \E answers \in NameAnswers(Serving(served - 1), mt, found[1].id, by_date) :
                /\ pvf_pc' = "returned"
                /\ pvf_ret' = Named(file_path,
                                    IF mt = "tv"
                                    THEN pvf_tv_name(p, found[1],
                                             process_optional_info(file_path, media_info),
                                             answers)
                                    ELSE pvf_movie_name(p, found[1],
                                             process_optional_info(file_path, media_info),
                                             answers))
    /\ UNCHANGED <<file_path, media_info, pattern_data, parsed, responses, found>>
    /\ UNCHANGED <<titleVars, callVars, matchVars, worldVars, driverVars>>

(***************************************************************************)
(* process_path and its two drivers.  A driver hands a file to             *)
(* process_video_file (Calls) and goes on when the call has returned       *)
(* (Returned), with what handle_result yields.                             *)
(***************************************************************************)
Calls(video_file) ==
    /\ pvf_pc' = "called"
    /\ file_path' = video_file
    /\ log' = Append(log, [file |-> video_file, iteration |-> iteration,
                           ret |-> NoReturn, outcome |-> "pending"])
    /\ UNCHANGED <<media_info, pattern_data, parsed, responses, found, pvf_ret>>

Returned(handled) ==
    /\ files' = handled.files
    /\ backups' = handled.backups
    /\ counts' = Counted(counts, handled.outcome)
    /\ log' = [log EXCEPT ![Len(log)] =
                [@ EXCEPT !.ret = pvf_ret, !.outcome = handled.outcome]]
    /\ file_index' = file_index + 1
    /\ pvf_pc' = "idle"
    /\ file_path' = <<>>
    /\ media_info' = NoMediaInfo
    /\ pattern_data' = None
    /\ parsed' = None
    /\ responses' = NoResponses
    /\ found' = None
    /\ pvf_ret' = NoReturn

\* lines 2257-2274
ProcessPath ==
    /\ d_pc = "process_path"
    /\ IF args.dry_run \/ ~ args.rename
       THEN /\ video_files' = get_video_files(args.path, files)
            /\ d_pc' = IF video_files' = <<>> THEN "done" ELSE "file_list"
       ELSE /\ d_pc' = "discovery"
            /\ UNCHANGED video_files
    /\ UNCHANGED <<file_index, counts, processed_files, iteration, log>>
    /\ UNCHANGED <<titleVars, callVars, matchVars, worldVars, pvfVars>>

\* lines 2287-2304: the next file of the list
FileListNext ==
    /\ d_pc = "file_list"
    /\ IF file_index > Len(video_files)
       THEN /\ d_pc' = "done"
            /\ UNCHANGED <<file_index, counts, log, pvfVars>>
       ELSE LET video_file == video_files[file_index]
            IN  IF BeforeCall(video_file, args.skip_formatted, files, backups) = "call"
                THEN /\ Calls(video_file)
                     /\ d_pc' = "file_list_call"
                     /\ UNCHANGED <<file_index, counts>>
                ELSE /\ counts' = Counted(counts, "skipped")
                     /\ file_index' = file_index + 1
                     /\ UNCHANGED <<d_pc, log, pvfVars>>
    /\ UNCHANGED <<video_files, processed_files, iteration>>
    /\ UNCHANGED <<titleVars, callVars, matchVars, worldVars>>

\* lines 2304-2348
FileListResult ==
    /\ d_pc = "file_list_call"
    /\ pvf_pc = "returned"
    /\ \E response \in ConfirmAnswers :
        Returned(handle_result(video_files[file_index], pvf_ret, args, response,
                               files, backups))
    /\ d_pc' = "file_list"
    /\ UNCHANGED <<video_files, processed_files, iteration>>
    /\ UNCHANGED <<titleVars, callVars, matchVars, args, network_up, served, arrivals>>

\* line 2380: whether the directory is scanned once more
MayScan_Unbounded(n) == TRUE

MayScan(n) == n < max_iterations

\* lines 2380-2394: one more scan of the directory
DiscoveryScan ==
    /\ d_pc = "discovery"
    /\ IF MayScan(iteration)
       THEN LET current_files == get_video_files(args.path, files)
                unprocessed_files ==
                    SelectSeq(current_files,
                              LAMBDA f : <<"Path", f>> \notin processed_files)
            IN  /\ iteration' = iteration + 1
                /\ video_files' = unprocessed_files
                /\ file_index' = 1
                /\ d_pc' = IF unprocessed_files = <<>> THEN "done"
                           ELSE "discovery_files"
       ELSE /\ d_pc' = "done"
            /\ UNCHANGED <<iteration, video_files, file_index>>
    /\ UNCHANGED <<counts, processed_files, log>>
    /\ UNCHANGED <<titleVars, callVars, matchVars, worldVars, pvfVars>>

\* lines 2396-2417 and 2466-2468: the next file of the scan
DiscoveryNext ==
    /\ d_pc = "discovery_files"
    /\ IF file_index > Len(video_files)
       THEN /\ d_pc' = IF Len(video_files) = 0 THEN "done" ELSE "discovery"
            /\ UNCHANGED <<file_index, counts, processed_files, log, pvfVars>>
       ELSE LET video_file == video_files[file_index]
            IN  /\ processed_files' = processed_files \cup {<<"Path", video_file>>}
                /\ IF BeforeCall(video_file, args.skip_formatted, files, backups) = "call"
                   THEN /\ Calls(video_file)
                        /\ d_pc' = "discovery_call"
                        /\ UNCHANGED <<file_index, counts>>
                   ELSE /\ counts' = Counted(counts, "skipped")
                        /\ file_index' = file_index + 1
                        /\ UNCHANGED <<d_pc, log, pvfVars>>
    /\ UNCHANGED <<video_files, iteration>>
    /\ UNCHANGED <<titleVars, callVars, matchVars, worldVars>>

\* lines 2417-2464; line 2447 adds the new path as a str
DiscoveryResult ==
    /\ d_pc = "discovery_call"
    /\ pvf_pc = "returned"
    /\ \E response \in ConfirmAnswers :
        LET handled == handle_result(video_files[file_index], pvf_ret, args,
                                     response, files, backups)
        IN  /\ Returned(handled)
            /\ processed_files' =
                    IF handled.renamed
                    THEN processed_files \cup {<<"str", pvf_ret.path>>}
                    ELSE processed_files
    /\ d_pc' = "discovery_files"
    /\ UNCHANGED <<video_files, iteration>>
    /\ UNCHANGED <<titleVars, callVars, matchVars, args, network_up, served, arrivals>>

\* a file arrives in the directory while the run goes on with the network
\* down, once the file that arrived before it has been taken up
FileArrives ==
    /\ d_pc \notin {"idle", "done"}
    /\ ~ network_up
    /\ arrivals < MaxArrivals
    /\ arrivals > 0 => <<"Path", ArrivingFile(args.path, arrivals)>> \in processed_files
    /\ arrivals' = arrivals + 1
    /\ files' = files \cup {ArrivingFile(args.path, arrivals + 1)}
    /\ UNCHANGED <<args, backups, network_up, served>>
    /\ UNCHANGED <<titleVars, callVars, matchVars, driverVars, pvfVars>>

NextPvf == PvfParse \/ PvfSearch \/ PvfName

(***************************************************************************)
(* SpecPreview: process_path in preview mode (--dry-run), with and without *)
(* a template, over the files of PreviewRuns.                              *)
(***************************************************************************)
InitPreview ==
    /\ \E run \in PreviewRuns : args = run.args /\ files = run.files
    /\ backups = <<>>
    /\ network_up = TRUE
    /\ served = 0
    /\ arrivals = 0
    /\ DriverIdle("process_path")
    /\ PvfIdle
    /\ TitleIdle
    /\ MatchIdle
    /\ CallIdle

NextPreview == ProcessPath \/ FileListNext \/ FileListResult \/ NextPvf

SpecPreview == InitPreview /\ [][NextPreview]_vars

(***************************************************************************)
(* SpecRun: process_path over a directory in every mode, with the network  *)
(* up or down; with the network down files arrive during the run.          *)
(***************************************************************************)
InitRun ==
    /\ \E run \in Runs : args = run.args /\ files = run.files
    /\ backups = <<>>
    /\ network_up \in BOOLEAN
    /\ served = 0
    /\ arrivals = 0
    /\ DriverIdle("process_path")
    /\ PvfIdle
    /\ TitleIdle
    /\ MatchIdle
    /\ CallIdle

NextRun ==
    \/ ProcessPath
    \/ FileListNext
    \/ FileListResult
    \/ DiscoveryScan
    \/ DiscoveryNext
    \/ DiscoveryResult
    \/ FileArrives
    \/ NextPvf

SpecRun == InitRun /\ [][NextRun]_vars

\* where process_path and process_video_file stand
control == <<d_pc, pvf_pc, file_index, iteration>>

DriverPcs == {"idle", "process_path", "file_list", "file_list_call", "discovery",
              "discovery_files", "discovery_call", "done"}

PvfPcs == {"idle", "called", "search", "name", "returned"}

\* process_path has a handler to run: one of its own, or one of the call
\* of process_video_file it waits for
CanRun ==
    \/ d_pc \in {"process_path", "file_list", "discovery", "discovery_files"}
    \/ d_pc \in {"file_list_call", "discovery_call"} /\ pvf_pc \in PvfPcs \ {"idle"}

\* a step of the program, as far as control goes
Advances ==
    /\ d_pc # "done"
    /\ d_pc' \in DriverPcs
    /\ pvf_pc' \in PvfPcs
    /\ file_index' \in 0..(file_index + 1)
    /\ iteration' \in iteration..(iteration + 1)

\* the interpreter runs process_path on until it returns; no file has to
\* arrive
FairRun == SpecRun /\ WF_control(Advances)

(***************************************************************************)
(* SpecAnalyze: parse_filename and analyze_tv_show applied to a path.  The *)
(* paths are release names with a season and episode marker, in a plain    *)
(* folder and in a season folder, and short names in folders of every      *)
(* kind.                                                                   *)
(***************************************************************************)
ReleaseShows == { <<"S","h","o","w">>, <<"T","h","e",".","S","h","o","w">>, <<"2","4">>, <<"R","o","o","m",".","1","0","4">>, <<"S","h","o","w",".","2","0","1","9">> }

SeasonDigits == { <<"0","1">>, <<"1">>, <<"1","0">>, <<"0","0">> }

EpisodeDigits == { <<"0","2">>, <<"2","0">>, <<"0","0">> }

ReleaseTitles == { <<"t","i","t","l","e">>, <<"T","h","e",".","E","n","d",".","2","0","1","2">>, <<"P","a","r","t",".","2">> }

\* Show.SxxEyy.title.1080p.x264-GROUP.mkv; lower is whether s and e are
\* written small
ReleaseName(show, xx, yy, title, lower) ==
    show \o <<".">> \o (IF lower THEN <<"s">> ELSE <<"S">>) \o xx
         \o (IF lower THEN <<"e">> ELSE <<"E">>) \o yy \o <<".">> \o title
         \o <<".","1","0","8","0","p",".","x","2","6","4","-","G","R","O","U","P",".","m","k","v">>

ReleaseNames ==
    { ReleaseName(show, xx, yy, title, lower) :
        show \in ReleaseShows, xx \in SeasonDigits, yy \in EpisodeDigits,
        title \in ReleaseTitles, lower \in BOOLEAN }

\* the folders of a file below r, the parent last
ReleaseFolders == { << <<"t","v">> >>, << <<"S","h","o","w">>, <<"S","e","a","s","o","n"," ","2">> >> }

SeasonFolders ==
    { << <<"S","h","o","w">>, <<"S","2">> >>, << <<"S","h","o","w">>, <<"s","0","2">> >>, << <<"S","h","o","w">>, <<"2">> >>, << <<"S","h","o","w">>, <<"s","e","a","s","o","n","2">> >>, << <<"S","h","o","w">>, <<"S","E","A","S","O","N"," "," ","1","0">> >>,
      << <<"S","h","o","w">>, <<"S","0">> >> }

OtherFolders ==
    { << <<"S","h","o","w">>, <<"S","p","e","c","i","a","l","s">> >>, << <<"S","h","o","w">>, <<"S","e","a","s","o","n"," ","2"," ","E","x","t","r","a","s">> >>, << <<"m","o","v","i","e","s">>, <<"S","e","a","s","o","n"," ","1">> >> }

ShortNames == { <<"P","i","l","o","t",".","m","k","v">>, <<"S","h","o","w",".","m","k","v">>, <<"S","h","o","w",".","E","0","5",".","m","k","v">>, <<"S","h","o","w",".","S","0","1","E","0","2",".","m","k","v">>, <<"S","h","o","w",".","E","0","0",".","m","k","v">> }

\* folders named after movies: the parent is one of movie_folder_names, the
\* parent holds one of them inside a longer name, the grandparent is one,
\* the grandparent holds one inside a longer name
MovieFolders ==
    { << <<"M","o","v","i","e","s">> >>,
      << <<"S","h","o","w">>, <<"c","i","n","e","m","a">> >>,
      << <<"M","y"," ","M","o","v","i","e","s">> >>,
      << <<"S","h","o","w">>, <<"O","l","d"," ","F","i","l","m","s">> >>,
      << <<"C","i","n","e","m","a"," ","C","l","u","b">> >>,
      << <<"F","i","l","m">>, <<"S","e","a","s","o","n"," ","2">> >>,
      << <<"M","y"," ","M","o","v","i","e","s">>, <<"S","e","a","s","o","n"," ","2">> >> }

AnalyzedPaths ==
    { << <<"r">> >> \o folders \o <<name>> :
        folders \in ReleaseFolders, name \in ReleaseNames }
    \cup
    { << <<"r">> >> \o folders \o <<name>> :
        folders \in ReleaseFolders \cup SeasonFolders \cup OtherFolders \cup MovieFolders,
        name \in ShortNames }

InitAnalyze ==
    /\ fn_pc = "call"
    /\ \E path \in AnalyzedPaths, parentheses_only \in BOOLEAN :
        fn_in = [file_path |-> path, parentheses_only |-> parentheses_only]
    /\ fn_out = <<>>
    /\ TitleIdle
    /\ MatchIdle
    /\ RunIdle

Called(fn, ret) ==
    /\ fn_pc' = "done"
    /\ fn_out' = [fn |-> fn, ret |-> ret]
    /\ UNCHANGED <<fn_in, titleVars, matchVars, worldVars, driverVars, pvfVars>>

\* parse_filename(file_path.name, parentheses_only)
ParseFilenameCall ==
    /\ fn_pc = "call"
    /\ Called("parse_filename",
              parse_filename(PathName(fn_in.file_path), fn_in.parentheses_only, FALSE))

AnalyzeTvShowCall ==
    /\ fn_pc = "call"
    /\ Called("analyze_tv_show",
              analyze_tv_show(fn_in.file_path, fn_in.parentheses_only))

NextAnalyze == ParseFilenameCall \/ AnalyzeTvShowCall

SpecAnalyze == InitAnalyze /\ [][NextAnalyze]_vars

(***************************************************************************)
(* SpecRoundTrip: parse_filename applied to the name of a movie that has   *)
(* been renamed, and format_movie_name applied to the title it yields.     *)
(***************************************************************************)
MovieTitles == { <<"D","u","n","e">>, <<"R","o","c","k","y"," ","I","I">>, <<"T","h","e"," ","M","a","t","r","i","x">>, <<"T","i","t","l","e">>, <<"S","e","7","e","n">> }

MovieYears == {1999, 2020, 2021}

MovieIds == {1, 5, 603}

ExtraTags == { None, Some(<<"1","0","8","0","p"," ","H","2","6","4">>) }

\* Title (YYYY) {tmdb-N}, and Title (YYYY) {tmdb-N} [extra]
CanonicalStem(title, year, tmdb_id) ==
    title \o <<" ","(">> \o IntToStr(year) \o <<")"," ","{","t","m","d","b","-">>
          \o IntToStr(tmdb_id) \o <<"}">>

CanonicalName(title, year, tmdb_id, extra) ==
    CanonicalStem(title, year, tmdb_id)
        \o (IF extra = None THEN <<>> ELSE <<" ","[">> \o extra[1] \o <<"]">>)
        \o <<".","m","k","v">>

InitRoundTrip ==
    /\ fn_pc = "call"
    /\ \E title \in MovieTitles, year \in MovieYears, tmdb_id \in MovieIds,
          extra \in ExtraTags, parentheses_only \in BOOLEAN :
        fn_in = [title |-> title, year |-> year, tmdb_id |-> tmdb_id, extra |-> extra,
                 filename |-> CanonicalName(title, year, tmdb_id, extra),
                 parentheses_only |-> parentheses_only]
    /\ fn_out = <<>>
    /\ TitleIdle
    /\ MatchIdle
    /\ RunIdle

\* parse_filename(filename, parentheses_only)
ParseCanonicalCall ==
    /\ fn_pc = "call"
    /\ fn_pc' = "parsed"
    /\ fn_out' = [fn |-> "parse_filename",
                  ret |-> parse_filename(fn_in.filename, fn_in.parentheses_only, FALSE)]
    /\ UNCHANGED <<fn_in, titleVars, matchVars, worldVars, driverVars, pvfVars>>

\* format_movie_name(title, year, tmdb_id) for the title parsed
FormatParsedCall ==
    /\ fn_pc = "parsed"
    /\ Called("format_movie_name",
              format_movie_name(fn_out.ret.title, fn_in.year, Some(fn_in.tmdb_id),
                                None, None))

NextRoundTrip == ParseCanonicalCall \/ FormatParsedCall

SpecRoundTrip == InitRoundTrip /\ [][NextRoundTrip]_vars

(***************************************************************************)
(* SpecNames: format_movie_name, format_tv_name and                        *)
(* format_date_based_tv_name applied to texts with and without the         *)
(* characters a filename cannot hold.                                      *)
(***************************************************************************)
FreeTexts == { <<"D","u","n","e">>, <<"D","u","n","e",":"," ","P","a","r","t"," ","T","w","o">>, <<"W","h","a","t","?">>, <<"a","/","b","<","c",">","|","d","\"","e","\\","f","*">>, <<"L","i","v","e"," ","(","1","9",":","0","0",")">> }

Editions == { None, Some(<<"D","i","r","e","c","t","o","r","'","s"," ","C","u","t">>), Some(<<"H","a","l","f",":"," ","C","u","t">>), Some(<<"T","h","e"," ","V","e","r","y"," ","L","o","n","g"," ","E","d","i","t","i","o","n"," ","O","f"," ","T","h","e"," ","F","i","l","m",":"," ","U","n","c","u","t","?">>) }

OptionalInfos == { None, Some(<<"1","0","8","0","p"," ","H","2","6","4">>), Some(<<"a","/","b">>) }

InitNames ==
    /\ fn_pc = "call"
    /\ \E title \in FreeTexts, episode_title \in {None} \cup {Some(text) : text \in FreeTexts},
          edition \in Editions, optional_info \in OptionalInfos,
          tmdb_id \in {None, Some(1)}, part_number \in {None, Some(2)} :
        fn_in = [title |-> title, episode_title |-> episode_title, edition |-> edition,
                 optional_info |-> optional_info, year |-> 2021, tmdb_id |-> tmdb_id,
                 season |-> 1, episode |-> 5,
                 air_date |-> <<"2","0","1","5","-","0","9","-","1","4">>,
                 part_number |-> part_number]
    /\ fn_out = <<>>
    /\ TitleIdle
    /\ MatchIdle
    /\ RunIdle

FormatMovieNameCall ==
    /\ fn_pc = "call"
    /\ Called("format_movie_name",
              format_movie_name(fn_in.title, fn_in.year, fn_in.tmdb_id, fn_in.edition,
                                fn_in.optional_info))

FormatTvNameCall ==
    /\ fn_pc = "call"
    /\ Called("format_tv_name",
              format_tv_name(fn_in.title, fn_in.season, fn_in.episode,
                             fn_in.episode_title, Some(fn_in.year), fn_in.tmdb_id,
                             fn_in.optional_info))

FormatDateBasedTvNameCall ==
    /\ fn_pc = "call"
    /\ Called("format_date_based_tv_name",
              format_date_based_tv_name(fn_in.title, fn_in.air_date, fn_in.episode_title,
                                        Some(fn_in.year), fn_in.tmdb_id,
                                        fn_in.optional_info, fn_in.part_number))

NextNames == FormatMovieNameCall \/ FormatTvNameCall \/ FormatDateBasedTvNameCall

SpecNames == InitNames /\ [][NextNames]_vars

(***************************************************************************)
(* SpecOptionalInfo: combine_optional_info applied to what                 *)
(* extract_optional_info finds in a filename and to what the probe of the  *)
(* file reports.                                                           *)
(***************************************************************************)
TaggedNames ==
    { <<"D","u","n","e",".","2","0","2","1",".","1","0","8","0","p",".","B","l","u","R","a","y",".","x","2","6","4",".","A","A","C","-","G","R","P",".","m","k","v">>,
      <<"D","u","n","e",".","7","2","0","p",".","H","D","T","V",".","W","E","B","-","D","L",".","x","2","6","5",".","P","R","O","P","E","R",".","R","E","P","A","C","K",".","m","k","v">>,
      <<"D","u","n","e",".","m","k","v">>,
      <<"D","u","n","e",".","D","V","D","R","i","p",".","X","v","i","D",".","a","c","3",".","m","k","v">>,
      <<"D","u","n","e",".","2","1","6","0","p",".","H","E","V","C",".","D","T","S",".","m","k","v">>,
      <<"D","u","n","e",".","W","E","B",".","h","2","6","4",".","m","k","v">>,
      <<"D","u","n","e",".","4","k",".","w","e","b","r","i","p",".","r","e","p","a","c","k",".","m","k","v">>,
      <<"D","u","n","e",".","B","l","u","-","R","a","y",".","m","p","3",".","p","r","o","p","e","r",".","m","k","v">>,
      <<"D","u","n","e"," ","4","8","0","p"," ","s","d","t","v"," ","h","2","6","5"," ","[","B","R","R","i","p","]",".","m","k","v">> }

ProbedResolutions == { None, Some(<<"1","0","8","0","p">>), Some(<<"7","2","0","p">>) }

ProbedVideoCodecs == { None, Some(<<"H","2","6","4">>), Some(<<"H","E","V","C">>) }

ProbedAudioCodecs == { None, Some(<<"A","A","C">>), Some(<<"D","T","S">>) }

InitOptionalInfo ==
    /\ fn_pc = "call"
    /\ \E filename \in TaggedNames, resolution \in ProbedResolutions,
          video_codec \in ProbedVideoCodecs, audio_codec \in ProbedAudioCodecs :
        fn_in = [filename |-> filename,
                 media_info |-> [resolution |-> resolution, video_codec |-> video_codec,
                                 audio_codec |-> audio_codec]]
    /\ fn_out = <<>>
    /\ TitleIdle
    /\ MatchIdle
    /\ RunIdle

\* lines 1529-1533 of process_optional_info
CombineOptionalInfoCall ==
    /\ fn_pc = "call"
    /\ Called("combine_optional_info",
              combine_optional_info(extract_optional_info(fn_in.filename),
                                    fn_in.media_info))

NextOptionalInfo == CombineOptionalInfoCall

SpecOptionalInfo == InitOptionalInfo /\ [][NextOptionalInfo]_vars

(***************************************************************************)
(* The backup files of a chain of renames and revert_renames.  SpecBackup  *)
(* renames one file several times the way the drivers do (handle_result,   *)
(* which writes the backup file) and then reverts the folder.              *)
(***************************************************************************)
\* Path.exists() of a video file or of a backup file
Exists(path, world) == path \in world.files \/ path \in DOMAIN world.backups

\* a variant without the test of line 1772: the file is moved onto an
\* existing one
RevertOne_NoExistsTest(backup_file, dry_run, world) ==
    LET original_filename == ReadField(world.backups[backup_file].original_filename)
        renamed_filename == ReadField(world.backups[backup_file].current_filename)
        current_file == Parent(backup_file) \o <<renamed_filename>>
        original_file == Parent(backup_file) \o <<original_filename>>
    IN  IF original_filename = <<>> \/ renamed_filename = <<>>
        THEN [world EXCEPT !.failed = @ + 1]
        ELSE IF ~ Exists(current_file, world)
        THEN [world EXCEPT !.failed = @ + 1]
        ELSE IF dry_run
        THEN [world EXCEPT !.successful = @ + 1]
        ELSE [world EXCEPT
                !.files = (@ \ {current_file}) \cup {original_file},
                !.backups = [b \in DOMAIN @ \ {backup_file} |-> @[b]],
                !.successful = @ + 1]

\* lines 1746-1797: one backup file of the loop of revert_renames; world
\* holds the files, the backup files and the three counters
RevertOne(backup_file, dry_run, world) ==
    LET original_filename == ReadField(world.backups[backup_file].original_filename)
        renamed_filename == ReadField(world.backups[backup_file].current_filename)
        current_file == Parent(backup_file) \o <<renamed_filename>>
        original_file == Parent(backup_file) \o <<original_filename>>
    IN  IF original_filename = <<>> \/ renamed_filename = <<>>
        THEN [world EXCEPT !.failed = @ + 1]
        ELSE IF ~ Exists(current_file, world)
        THEN [world EXCEPT !.failed = @ + 1]
        ELSE IF Exists(original_file, world)
        THEN [world EXCEPT !.skipped = @ + 1]
        ELSE IF dry_run
        THEN [world EXCEPT !.successful = @ + 1]
        ELSE [world EXCEPT
                !.files = (@ \ {current_file}) \cup {original_file},
                !.backups = [b \in DOMAIN @ \ {backup_file} |-> @[b]],
                !.successful = @ + 1]

RECURSIVE RevertAll(_, _, _)
RevertAll(backup_files, dry_run, world) ==
    IF backup_files = <<>> THEN world
    ELSE RevertAll(Tail(backup_files), dry_run,
                   RevertOne(Head(backup_files), dry_run, world))

\* revert_renames(folder_path, dry_run): backup_files is the list rglob
\* returned, response is what input() returns
revert_renames(backup_files, dry_run, response, on_disk, saved) ==
    LET world == [files |-> on_disk, backups |-> saved,
                  successful |-> 0, failed |-> 0, skipped |-> 0]
    IN  IF backup_files = <<>> THEN world
        ELSE IF ~ dry_run /\ StrLower(StrStrip(response)) \notin { <<"y">>, <<"y","e","s">> }
        THEN world
        ELSE RevertAll(backup_files, dry_run, world)

\* folder.rglob("*.original.txt"): the backup files under folder, in any
\* of the orders the file system may list them
BackupLists(folder, saved) ==
    LET listed == { b \in DOMAIN saved : IsUnder(b, folder) }
        n == Cardinality(listed)
    IN  { order \in [1..n -> listed] : \A i, j \in 1..n : order[i] = order[j] => i = j }

MaxRenames == 3

LibraryFolder == << <<"r">> >>

FirstNames ==
    { <<"d","u","n","e",".","2","0","2","1",".","m","k","v">>,
      <<" ","d","u","n","e",".","2","0","2","1",".","m","k","v">>,
      <<"D","u","n","e"," ","(","2","0","2","1",")"," ","{","t","m","d","b","-","1","}",".","m","k","v">> }

NewNames ==
    { <<"D","u","n","e"," ","(","2","0","2","1",")"," ","{","t","m","d","b","-","1","}",".","m","k","v">>,
      <<"D","u","n","e"," ","(","2","0","0","0",")"," ","{","t","m","d","b","-","7","}",".","m","k","v">>,
      <<"D","u","n","e"," ","(","1","9","8","4",")"," ","{","t","m","d","b","-","9","}",".","m","k","v">> }

\* another file of the folder, renamed earlier
OtherFirstName == <<"h","e","a","t",".","m","k","v">>

OtherFile ==
    LibraryFolder \o << <<"H","e","a","t"," ","(","1","9","9","5",")"," ","{","t","m","d","b","-","5","}",".","m","k","v">> >>

RevertResponses == { <<"y">>, <<" ","Y","E","S">>, <<"n">>, <<>> }

RenameOptions == [dry_run |-> FALSE, rename |-> TRUE, skip_confirmation |-> TRUE]

InitBackup ==
    /\ fn_pc = "renaming"
    /\ \E first \in FirstNames :
        fn_in = [first |-> LibraryFolder \o <<first>>,
                 current |-> LibraryFolder \o <<first>>, renames |-> 0]
    /\ fn_out = <<>>
    /\ \E other \in BOOLEAN :
        /\ files = {fn_in.current} \cup (IF other THEN {OtherFile} ELSE {})
        /\ backups = IF other
                     THEN create_backup_file(LibraryFolder \o <<OtherFirstName>>, OtherFile, <<>>)
                     ELSE <<>>
    /\ args = Arguments(<<>>, "auto", FALSE, FALSE, FALSE, FALSE, None, None, None, FALSE)
    /\ network_up = TRUE
    /\ served = 0
    /\ arrivals = 0
    /\ DriverIdle("idle")
    /\ PvfIdle
    /\ TitleIdle
    /\ MatchIdle

\* lines 2306-2348: the driver renames the file to the path
\* process_video_file returned
RenameCall ==
    /\ fn_pc = "renaming"
    /\ fn_in.renames < MaxRenames
    /\ \E new_name \in NewNames :
        LET new_path == LibraryFolder \o <<new_name>>
            handled == handle_result(fn_in.current, [kind |-> "path", path |-> new_path],
                                     RenameOptions, <<>>, files, backups)
        IN  /\ handled.renamed
            /\ files' = handled.files
            /\ backups' = handled.backups
            /\ fn_in' = [fn_in EXCEPT !.current = new_path, !.renames = @ + 1]
    /\ UNCHANGED <<fn_pc, fn_out, args, network_up, served, arrivals,
                   titleVars, matchVars, driverVars, pvfVars>>

\* revert_renames(folder_path, dry_run)
RevertCall ==
    /\ fn_pc = "renaming"
    /\ \E dry_run \in BOOLEAN, response \in RevertResponses,
          backup_files \in BackupLists(LibraryFolder, backups) :
        LET reverted == revert_renames(backup_files, dry_run, response, files, backups)
        IN  /\ files' = reverted.files
            /\ backups' = reverted.backups
            /\ fn_out' = [fn |-> "revert_renames", dry_run |-> dry_run,
                          response |-> response, backup_files |-> backup_files,
                          before |-> [files |-> files, backups |-> backups],
                          ret |-> [successful |-> reverted.successful,
                                   failed |-> reverted.failed,
                                   skipped |-> reverted.skipped]]
    /\ fn_pc' = "reverted"
    /\ UNCHANGED <<fn_in, args, network_up, served, arrivals,
                   titleVars, matchVars, driverVars, pvfVars>>

NextBackup == RenameCall \/ RevertCall

SpecBackup == InitBackup /\ [][NextBackup]_vars

(***************************************************************************)
(* SpecDates: _parse_full_date applied to three numbers with separators    *)
(* and a suffix.                                                           *)
(***************************************************************************)
DateNumbers == { <<"1">>, <<"0","2">>, <<"1","2">>, <<"1","3">>, <<"2","5">>, <<"2","9">>, <<"3","0">>, <<"3","1">>, <<"0","0">>, <<"5","0">>, <<"4","9">>, <<"1","2","3">> }

DateYears == { <<"2","0","1","3">>, <<"2","0","1","2">>, <<"1","9","0","0">>, <<"0","0","0","0">> }

DateSeparatorPairs == { <<"-", "-">>, <<".", "-">>, <<" ", " ">>, <<"/", "/">> }

DateSuffixes == { <<>>, <<" ","P","T","1">>, <<" "," ","p","t","1","2">>, <<"P","T","1">>, <<" ","P","T">> }

InitDates ==
    /\ fn_pc = "call"
    /\ \E a \in DateNumbers \cup DateYears, b \in DateNumbers,
          c \in DateNumbers \cup DateYears, seps \in DateSeparatorPairs,
          suffix \in DateSuffixes :
        fn_in = [a |-> a, b |-> b, c |-> c, seps |-> seps, suffix |-> suffix,
                 text |-> a \o <<seps[1]>> \o b \o <<seps[2]>> \o c \o suffix]
    /\ fn_out = <<>>
    /\ TitleIdle
    /\ MatchIdle
    /\ RunIdle

\* PatternMatcher._parse_full_date(text, 'auto')
ParseFullDateCall ==
    /\ fn_pc = "call"
    /\ Called("_parse_full_date", parse_full_date(fn_in.text, <<"a","u","t","o">>))

NextDates == ParseFullDateCall

SpecDates == InitDates /\ [][NextDates]_vars

(***************************************************************************)
(* SpecSearch: search_movie and search_tv called for a title, without a    *)
(* duration.  The collaborator answers each query with a list of hits or   *)
(* fails.                                                                  *)
(***************************************************************************)
SearchedTitles ==
    { <<"R","o","c","k","y"," ","I","I">>,
      <<"r","o","c","k","y"," ","i","i">>,
      <<"R","o","c","k","y"," "," ","2">>,
      <<"R","o","c","k","y"," ","1","0">>,
      <<"X">>,
      <<"R","o","c","k","y">>,
      <<"R","o","c","k","y"," ","1","1">>,
      <<"R","o","c","k","y"," ","X","I">>,
      <<"R","o","c","k","y"," ","T","w","o"," ">>,
      <<"I","I"," ","R","o","c","k","y">>,
      <<"R","o","c","k","y"," ","0">>,
      <<" ">>,
      <<>> }

SearchHit(id) == [id |-> id, title |-> <<"R","o","c","k","y"," ","I","I">>]

\* data['results'] of one answer: hits of distinct ids
SearchHitLists ==
    { <<>>, <<SearchHit(1)>>, <<SearchHit(1), SearchHit(2)>>,
      <<SearchHit(2), SearchHit(3)>>, <<SearchHit(3), SearchHit(1)>> }

QueryAnswers == {None} \cup { Some(hits) : hits \in SearchHitLists }

InitSearch ==
    /\ fn_pc = "call"
    /\ \E title \in SearchedTitles, mt \in MediaTypes :
        fn_in = [title |-> title, media_type |-> mt]
    /\ fn_out = <<>>
    /\ TitleIdle
    /\ MatchIdle
    /\ RunIdle

\* search_movie(title) or search_tv(title): the queries asked, their
\* answers, the merged list and the hit returned
SearchCall ==
    /\ fn_pc = "call"
    /\ IF SearchRaises(fn_in.title)
       THEN Called("search", [raised |-> TRUE, queries |-> <<>>, responses |-> <<>>,
                              all_results |-> <<>>, found |-> None])
       ELSE \E answers \in [1..Len(search_queries(fn_in.title)) -> QueryAnswers] :
                Called("search",
                       [raised |-> FALSE,
                        queries |-> search_queries(fn_in.title),
                        responses |-> answers,
                        all_results |-> CollectResults(answers, 1, <<>>),
                        found |-> IF fn_in.media_type = "movie"
                                  THEN search_movie(fn_in.title, None, None, answers, <<>>)
                                  ELSE search_tv(fn_in.title, None, None, answers,
                                                 [k \in 1..Len(simple_queries(fn_in.title)) |-> None],
                                                 <<>>)])

NextSearch == SearchCall

SpecSearch == InitSearch /\ [][NextSearch]_vars

(***************************************************************************)
(* Claims about _match_by_duration, checked under SpecMatch.               *)
(***************************************************************************)
RuntimeOfHit(i) == ItemDuration(media_type, tmdb_details[i])

\* the case of C1: two hits titled like the query, runtimes 155 and 201,
\* target duration 156, and the call has returned
C1_Case ==
    /\ m_pc = "done"
    /\ Len(results) = 2
    /\ duration_minutes = 156
    /\ last_search_query # <<>>
    /\ \A i \in 1..2 : titles_match(last_search_query, results[i].title)
    /\ {RuntimeOfHit(1), RuntimeOfHit(2)} = {Some(155), Some(201)}

C1_HitWithRuntime(r) == results[CHOOSE i \in 1..2 : RuntimeOfHit(i) = Some(r)]

\* C1 as claimed: with exact-title hits of 155 and 201 minutes and a target
\* of 156 minutes, the 201-minute hit is selected and not the 155-minute one.
C1_Selects201 == C1_Case => m_ret = Some(C1_HitWithRuntime(201))

\* C1 as amended: in that case the 155-minute hit is selected, because it is
\* an exact-title hit within 2 minutes of the target (the first test of the
\* exact-title pass); the 201-minute hit is not selected.
C1_Selects155 == C1_Case => m_ret = Some(C1_HitWithRuntime(155))

C1_Witness == C1_Case /\ RuntimeOfHit(1) = Some(155) /\ RuntimeOfHit(2) = Some(201)

\* C2: an empty list returns none and a list of one hit returns that hit,
\* for every target, query, title and runtime, and no detail is requested.
C2_SmallInputs ==
    m_pc = "done" =>
        /\ results = <<>> => (m_ret = None /\ m_fetched = <<>>)
        /\ Len(results) = 1 => (m_ret = Some(results[1]) /\ m_fetched = <<>>)

\* a lone hit whose title does not match and whose runtime is 45 minutes off
C2_Witness ==
    /\ m_pc = "done"
    /\ Len(results) = 1
    /\ last_search_query = Dune
    /\ ~ titles_match(last_search_query, results[1].title)
    /\ RuntimeOfHit(1) = Some(201)
    /\ duration_minutes = 156
    /\ m_ret = Some(results[1])

\* the three ways a considered hit yields no runtime, stated on the answers
C3_NoRuntime(i) ==
    \/ tmdb_details[i] = None
    \/ /\ tmdb_details[i] # None
       /\ IF media_type = "movie"
          THEN tmdb_details[i][1].runtime \in {None, Some(0)}
          ELSE \/ tmdb_details[i][1].episode_run_time = <<>>
               \/ tmdb_details[i][1].episode_run_time[1] = 0

C3_Considered == 1..Min(5, Len(results))

\* C3: with two or more hits of which no considered one yields a runtime,
\* the call returns the first hit of the original list.
C3_FallsBackToFirst ==
    (m_pc = "done" /\ Len(results) >= 2 /\ \A i \in C3_Considered : C3_NoRuntime(i))
        => m_ret = Some(results[1])

\* a failed request next to a zero runtime
C3_Witness ==
    /\ m_pc = "done"
    /\ Len(results) >= 2
    /\ \A i \in C3_Considered : C3_NoRuntime(i)
    /\ tmdb_details[1] = None
    /\ tmdb_details[2] # None
    /\ m_ret = Some(results[1])

(***************************************************************************)
(* Claims about titles_match, checked under SpecTitles.                    *)
(***************************************************************************)
C4_Lower(t) == StrStrip(StrLower(t))

C4_Words(t) == StrSplit(StrLower(t))

\* words, the words of a title, are separated by single spaces in the
\* title, whose lower-cased trimmed form is lower
C4_SingleSpaced(words, lower) == StrJoin(words) = lower

\* two titles of words a and b have the same words but the last, which
\* are x and y
C4_EndIn(a, b, x, y) ==
    /\ a # <<>>
    /\ b # <<>>
    /\ Front(a) = Front(b)
    /\ a[Len(a)] = x
    /\ b[Len(b)] = y

\* the property of C4 for the answer of titles_match, given the
\* lower-cased trimmed forms, the numeral-converted forms and the words
\* of the two titles
C4_Characterised(answer, search_lower, api_lower, search_normalized, api_normalized,
                 search_words, api_words) ==
    /\ answer <=>
        \/ search_lower = api_lower
        \/ search_normalized = api_lower
        \/ api_normalized = search_lower
        \/ search_normalized = api_normalized
    /\ ( /\ \/ C4_EndIn(search_words, api_words, <<"i","i">>, <<"2">>)
            \/ C4_EndIn(search_words, api_words, <<"2">>, <<"i","i">>)
         /\ \/ C4_SingleSpaced(search_words, search_lower)
            \/ C4_SingleSpaced(api_words, api_lower) )
        => answer
    /\ ( \/ C4_EndIn(search_words, api_words, <<"i","i">>, <<"i","i","i">>)
         \/ C4_EndIn(search_words, api_words, <<"i","i","i">>, <<"i","i">>) )
        => ~ answer

DynamicRun == args.rename /\ ~ args.dry_run

\* the i-th file handed to process_video_file was renamed to its new path
RenamedAt(i) ==
    /\ DynamicRun
    /\ log[i].outcome = "successful"
    /\ log[i].ret.kind = "path"

\* C5 as claimed: in a run of _process_with_dynamic_discovery, a file that
\* was renamed from P to Q is not handed to process_video_file under the
\* path Q by any later scan of the run.
C5_RenamedFileNotReprocessed ==
    \A i, j \in DOMAIN log :
        (i < j /\ RenamedAt(i)) => log[j].file # log[i].ret.path

\* the safety part of C6: no more than 10 scans, no path handed twice by
\* one scan, files are only taken from a scan that found some, and the run
\* ends on a scan that found none or on the 10th
C6_Bounded ==
    DynamicRun =>
        /\ iteration <= 10
        /\ \A i, j \in DOMAIN log :
            (i < j /\ log[i].iteration = log[j].iteration) => log[i].file # log[j].file
        /\ d_pc \in {"discovery_files", "discovery_call"} => video_files # <<>>
        /\ d_pc = "done" => (video_files = <<>> \/ iteration = 10)
        /\ d_pc # "done" => CanRun

\* C6: every run of _process_with_dynamic_discovery ends, whatever is
\* renamed and whatever arrives: it scans at most 10 times, hands each
\* path of a scan to process_video_file at most once, and stops at the
\* first scan that finds no unprocessed path.
C6_Terminates == [] C6_Bounded /\ (DynamicRun => <>(d_pc = "done"))

\* the 10th scan found a file and the run ended after it, with a file that
\* arrived since left unprocessed
C6_Witness ==
    /\ DynamicRun
    /\ d_pc = "done"
    /\ iteration = 10
    /\ Len(log) = 10
    /\ \E f \in files : <<"Path", f>> \notin processed_files /\ f # Notes

\* the answer to a search request holds a hit
C7_Yielded(response) == response # None /\ response[1] # <<>>

\* the search of the file in hand has been made
C7_Searched == pvf_pc \in {"name", "returned"} /\ responses # NoResponses

C7_Hits(response) == {response[1][i] : i \in DOMAIN response[1]}

\* C7: a search request that fails counts as one without hits: where
\* another request of the search yields hits, one of them is found; where
\* no request yields a hit nothing is found and process_video_file returns
\* none.  A file for which it returns none is counted as failed, once, and
\* is not handed to it again, and the driver of a fixed list goes on to
\* the next file: it has visited every file before the one in hand.
C7_FailedSearch ==
    /\ C7_Searched =>
        /\ (\E k \in DOMAIN responses.queries : C7_Yielded(responses.queries[k]))
            => /\ found # None
               /\ \E k \in DOMAIN responses.queries :
                    /\ C7_Yielded(responses.queries[k])
                    /\ found[1] \in C7_Hits(responses.queries[k])
        /\ ( /\ \A k \in DOMAIN responses.queries : ~ C7_Yielded(responses.queries[k])
             /\ \A k \in DOMAIN responses.simple : ~ C7_Yielded(responses.simple[k]) )
            => /\ found = None
               /\ pvf_pc = "returned"
               /\ pvf_ret.kind = "none"
    /\ \A i \in DOMAIN log :
        log[i].ret.kind = "none" =>
            /\ log[i].outcome = "failed"
            /\ \A j \in DOMAIN log : log[j].file = log[i].file => j = i
    /\ counts.failed = Cardinality({i \in DOMAIN log : log[i].outcome = "failed"})
    /\ (~ DynamicRun /\ d_pc \in {"file_list", "file_list_call"})
        => counts.successful + counts.failed + counts.skipped = file_index - 1
    /\ (~ DynamicRun /\ d_pc = "done")
        => counts.successful + counts.failed + counts.skipped = Len(video_files)

\* the first file of the list failed for want of a hit and is counted; the
\* second is searched by two queries of which the first request failed,
\* and a hit of the second is found
C7_Witness ==
    /\ ~ DynamicRun
    /\ network_up
    /\ Len(log) = 2
    /\ log[1].ret.kind = "none"
    /\ log[1].outcome = "failed"
    /\ counts.failed = 1
    /\ pvf_pc = "name"
    /\ Len(responses.queries) = 2
    /\ responses.queries[1] = None
    /\ C7_Yielded(responses.queries[2])
    /\ found # None

(***************************************************************************)
(* Claims about the parse of process_video_file, checked under             *)
(* SpecPreview.                                                            *)
(***************************************************************************)
\* C8: a parsed result that is date-based, by the template or by a date
\* in the filename with an explicit show name, holds no season and no
\* episode when the metadata search is issued, nor at any other time.
C8_DateBasedHasNoEpisode ==
    (parsed # None /\ parsed[1].is_date_based)
        => (parsed[1].season = None /\ parsed[1].episode = None)

\* the search is about to be issued for a file whose name holds both
\* S01E05 and a date, with an explicit show name
C8_Witness ==
    /\ pvf_pc = "search"
    /\ parsed[1].is_date_based
    /\ parsed[1].used_analyzer
    /\ analyze_tv_show(file_path, args.parentheses_only).season = Some(1)
    /\ analyze_tv_show(file_path, args.parentheses_only).episode = Some(5)

\* the path of the file in hand relative to the root of the template
C9_RelativePath == relative_to(file_path, PatternRoot(file_path, args.root_folder))

\* text is a real date written YYYY-MM-DD
C9_IsDate(text) ==
    /\ Len(text) = 10
    /\ text[5] = "-" /\ text[8] = "-"
    /\ \A i \in {1, 2, 3, 4, 6, 7, 9, 10} : text[i] \in DigitChars
    /\ ValidDate(StrToInt(SubSeq(text, 1, 4)), StrToInt(SubSeq(text, 6, 7)),
                 StrToInt(SubSeq(text, 9, 10)))

\* the case of C9: the file in hand has been parsed with the template
\* SHOW_NAME/DATE_FORMAT{YYYY-MM-DD}/IGNORE and lies at <show>/<date>/<file>
\* under the root
C9_Case ==
    /\ parsed # None
    /\ args.pattern = Some(DatedShow)
    /\ C9_RelativePath # None
    /\ Len(C9_RelativePath[1]) = 3
    /\ C9_IsDate(C9_RelativePath[1][2])

\* what the segments of the template yield before _process_extracted_data
C9_Extracted ==
    MatchParts(C9_RelativePath[1], StrSplitOn(args.pattern[1], "/"), 1, EmptyDict)

C9_Flag(key) == HasKey(pattern_data[1], key) /\ pattern_data[1][key] = TRUE

\* the rest of C9: a template's result is date-based exactly when an
\* air_date was captured or year, month and day were; it is then a TV
\* show, and where it is used the media type is tv
C9_DateBased ==
    (parsed # None /\ pattern_data # None) =>
        /\ C9_Flag("is_date_based") <=>
            \/ HasKey(C9_Extracted[1], "air_date")
            \/ \A key \in {"year", "month", "day"} : HasKey(C9_Extracted[1], key)
        /\ C9_Flag("is_date_based") <=> HasKey(pattern_data[1], "air_date")
        /\ C9_Flag("is_date_based") => C9_Flag("is_tv_show")
        /\ C9_Flag("is_date_based") => parsed[1].media_type = "tv"

C9_Dated(show_name) ==
    /\ pattern_data # None
    /\ DictGet(pattern_data[1], "show_name") = Some(show_name)
    /\ DictGet(pattern_data[1], "air_date") = Some(C9_RelativePath[1][2])
    /\ C9_Flag("is_date_based")
    /\ C9_Flag("is_tv_show")

\* C9 as claimed: for <show>/<date>/<file> the template yields show_name =
\* the first segment, air_date = the date, is_date_based and is_tv_show;
\* a result is date-based exactly when it has an air_date, captured or
\* put together, and the media type is then tv.
C9_ShowNameIsSegment ==
    /\ C9_Case => C9_Dated(C9_RelativePath[1][1])
    /\ C9_DateBased

\* C9 as amended: show_name is the first segment with every run of dots,
\* underscores and dashes replaced by one space and the ends trimmed; the
\* rest as claimed.
C9_ShowNameIsCleaned ==
    /\ C9_Case => C9_Dated(CleanName(C9_RelativePath[1][1]))
    /\ C9_DateBased

\* Coronation.Street/2016-02-29/.. yields the show name Coronation Street,
\* and the run asked for movies
C9_Witness ==
    /\ C9_Case
    /\ C9_RelativePath[1][1] = <<"C","o","r","o","n","a","t","i","o","n",".","S","t","r","e","e","t">>
    /\ C9_RelativePath[1][2] = <<"2","0","1","6","-","0","2","-","2","9">>
    /\ C9_Dated(<<"C","o","r","o","n","a","t","i","o","n"," ","S","t","r","e","e","t">>)
    /\ args.media_type = "movie"
    /\ parsed[1].media_type = "tv"

\* the segments of the template, and what the i-th yields for the i-th
\* segment of the path
C10_PatternParts == StrSplitOn(args.pattern[1], "/")

C10_Segment(i) ==
    MatchParts(C9_RelativePath[1],
               [j \in 1..i |-> IF j = i THEN C10_PatternParts[i]
                               ELSE <<"I","G","N","O","R","E">>],
               i, EmptyDict)

\* the file in hand has been parsed in a run with a template
C10_Parsed == parsed # None /\ TruthyText(args.pattern)

\* the template yields nothing for the file: none or the empty result
C10_NoMatch == pattern_data = None \/ pattern_data[1] = EmptyDict

\* C10: the template yields none for a file whose relative path has fewer
\* segments than the template or of which a segment does not match; the
\* parse of a file for which the template yields nothing is the
\* analyzer's; every parse is the template's or the analyzer's and not
\* both; and the driver visits every file of the list.
C10_FallsBackToAnalyzer ==
    /\ (C10_Parsed /\ C9_RelativePath # None) =>
        /\ Len(C10_PatternParts) > Len(C9_RelativePath[1]) => pattern_data = None
        /\ (\E i \in 1..Min(Len(C10_PatternParts), Len(C9_RelativePath[1])) :
                C10_Segment(i) = None) => pattern_data = None
    /\ (C10_Parsed /\ C10_NoMatch) =>
        /\ parsed[1].used_analyzer
        /\ parsed[1] = AnalyzerParse(file_path, args.media_type,
                                     args.parentheses_only, args.show_name)
    /\ parsed # None => (parsed[1].used_template <=> ~ parsed[1].used_analyzer)
    /\ d_pc = "done" =>
        /\ Len(log) = Len(video_files)
        /\ counts.successful + counts.failed + counts.skipped = Len(video_files)

\* the template yielded nothing for the first file of the run, which has
\* been named all the same, and the second file is parsed by the template
C10_Witness ==
    /\ Len(log) = 2
    /\ pvf_pattern_data(log[1].file, args.pattern, args.root_folder) = None
    /\ log[1].outcome = "successful"
    /\ pvf_pc = "search"
    /\ parsed[1].used_template

\* the i-th segment of the relative path as the template is matched
\* against it: the last segment without its suffix
C11_PathPart(i) ==
    IF i = Len(C9_RelativePath[1]) THEN Stem(C9_RelativePath[1][i])
    ELSE C9_RelativePath[1][i]

\* the i-th segment of the template, without the .ext of the last
C11_PatternPart(i) ==
    IF i = Len(C9_RelativePath[1]) /\ EndsWith(C10_PatternParts[i], <<".","e","x","t">>)
    THEN SubSeq(C10_PatternParts[i], 1, Len(C10_PatternParts[i]) - 4)
    ELSE C10_PatternParts[i]

C11_Paired == 1..Min(Len(C10_PatternParts), Len(C9_RelativePath[1]))

\* a segment of the template is a date slot, and no date pattern reads
\* the segment of the path it stands for
C11_SegmentCase ==
    /\ C10_Parsed
    /\ C9_RelativePath # None
    /\ \E i \in C11_Paired :
        /\ Len(PlaceholdersOf(PatternPieces(C11_PatternPart(i)))) = 1
        /\ IsDatePlaceholder(PlaceholdersOf(PatternPieces(C11_PatternPart(i)))[1])
        /\ parse_date_format(C11_PathPart(i), C11_PatternPart(i)) = None
        /\ \A j \in 1..(i - 1) : C10_Segment(j) # None

\* a segment of the template is a filename pattern with a date slot, it
\* matches the segment of the path, and no date pattern reads the text the
\* slot captured
C11_FilenameCase ==
    /\ C10_Parsed
    /\ C9_RelativePath # None
    /\ \A j \in C11_Paired : C10_Segment(j) # None
    /\ \E i \in C11_Paired :
        LET placeholders == PlaceholdersOf(PatternPieces(C11_PatternPart(i)))
            Dropped(extracted) == extracted # None /\ ~ HasKey(extracted[1], "air_date")
        IN  /\ Len(placeholders) > 1
            /\ \E g \in DOMAIN placeholders : IsDatePlaceholder(placeholders[g])
            /\ Dropped(match_complex_filename_pattern(C11_PathPart(i), C11_PatternPart(i)))

C12_Tokens == {<<"1","0","8","0","p">>, <<"x","2","6","4">>, <<"g","r","o","u","p">>}

C12_Clean(title) == \A token \in C12_Tokens : ~ StrContains(StrLower(title), token)

\* what the call in hand has returned is right for a name with the season
\* xx and the episode yy
C12_Right(xx, yy) ==
    IF fn_out.fn = "parse_filename"
    THEN /\ fn_out.ret.season # None /\ fn_out.ret.episode # None
         /\ StrToInt(fn_out.ret.season[1]) = StrToInt(xx)
         /\ StrToInt(fn_out.ret.episode[1]) = StrToInt(yy)
         /\ C12_Clean(fn_out.ret.title)
    ELSE /\ fn_out.ret.season = Some(StrToInt(xx))
         /\ fn_out.ret.episode = Some(StrToInt(yy))
         /\ C12_Clean(fn_out.ret.show_name)

\* C12: for every name Show.SxxEyy.title.1080p.x264-GROUP.mkv,
\* parse_filename and analyze_tv_show return the season xx, the episode yy
\* and a title without 1080p, x264 and GROUP.
C12_SeasonAndEpisode ==
    fn_pc = "done" =>
        \A show \in ReleaseShows, xx \in SeasonDigits, yy \in EpisodeDigits,
           title \in ReleaseTitles, lower \in BOOLEAN :
            PathName(fn_in.file_path) = ReleaseName(show, xx, yy, title, lower)
                => C12_Right(xx, yy)

\* the folder is one of S<N>, Season <N>, <N>, in any case
C13_IsSeasonFolder(folder) ==
    LET name == StrLower(folder)
        Digits(text) == text # <<>> /\ \A i \in DOMAIN text : text[i] \in DigitChars
    IN  \/ Digits(name)
        \/ StartsWith(name, <<"s">>) /\ Digits(Tail(name))
        \/ /\ StartsWith(name, <<"s","e","a","s","o","n">>)
           /\ Digits(LStrip(SubSeq(name, 7, Len(name))))

\* C13: analyze_tv_show warns of a missing episode, and gives no episode,
\* for every file in a season folder of whose name parse_filename yields no
\* episode; it does not warn where an episode was found or the folder is
\* no season folder.
C13_MissingEpisodeWarning ==
    (fn_pc = "done" /\ fn_out.fn = "analyze_tv_show") =>
        LET season_folder == C13_IsSeasonFolder(PathName(Parent(fn_in.file_path)))
            marker == parse_filename(PathName(fn_in.file_path), fn_in.parentheses_only,
                                     fn_out.ret.in_movie_folder).episode
        IN  /\ (season_folder /\ marker = None) =>
                /\ fn_out.ret.missing_episode_warning
                /\ fn_out.ret.episode = None
            /\ (fn_out.ret.episode # None \/ ~ season_folder) =>
                ~ fn_out.ret.missing_episode_warning

\* r/Show/Season 2/Pilot.mkv is warned of
C13_Witness ==
    /\ fn_pc = "done"
    /\ fn_out.fn = "analyze_tv_show"
    /\ fn_in.file_path = << <<"r">>, <<"S","h","o","w">>, <<"S","e","a","s","o","n"," ","2">>, <<"P","i","l","o","t",".","m","k","v">> >>
    /\ fn_out.ret.missing_episode_warning
    /\ fn_out.ret.episode = None

(***************************************************************************)
(* Claims about the formatter, checked under SpecRoundTrip and SpecNames.  *)
(***************************************************************************)
\* C14: parse_filename applied to Title (YYYY) {tmdb-N}.ext, with or
\* without a tag [extra] after it, yields the title Title, and
\* format_movie_name(that title, YYYY, N) is Title (YYYY) {tmdb-N} again.
C14_RoundTrip ==
    /\ fn_pc = "parsed" => fn_out.ret.title = fn_in.title
    /\ fn_pc = "done" =>
        fn_out.ret = CanonicalStem(fn_in.title, fn_in.year, fn_in.tmdb_id)

\* C15: no name made by format_movie_name, format_tv_name or
\* format_date_based_tv_name holds one of < > : " / \ | ? *, whatever the
\* title, the episode title, the edition and the extra info are.
C15_NoIllegalCharacter ==
    fn_pc = "done" => \A i \in DOMAIN fn_out.ret : fn_out.ret[i] \notin IllegalChars

(***************************************************************************)
(* Claims about combine_optional_info, checked under SpecOptionalInfo.     *)
(***************************************************************************)
\* the words of the text returned
C16_Words == IF fn_out.ret = None THEN <<>> ELSE StrSplit(fn_out.ret[1])

\* what the probe reports
C16_Probed ==
    { fn_in.media_info[key][1] :
        key \in { k \in {"resolution", "video_codec", "audio_codec"} :
                    fn_in.media_info[k] # None } }

\* the resolutions and codecs a filename can claim
C16_Claims ==
    { <<"1","0","8","0","P">>, <<"7","2","0","P">>, <<"4","8","0","P">>, <<"4","K">>, <<"2","1","6","0","P">>,
      <<"X","2","6","4">>, <<"X","2","6","5">>, <<"H","2","6","4">>, <<"H","2","6","5">>, <<"H","E","V","C">>, <<"X","V","I","D">>,
      <<"A","A","C">>, <<"A","C","3">>, <<"D","T","S">>, <<"M","P","3">> }

C16_Sources == { source_keywords[k] : k \in DOMAIN source_keywords }

C16_Flags == { special_keywords[k] : k \in DOMAIN special_keywords }

\* C16: the text combine_optional_info returns holds what the probe
\* reports of resolution, video codec and audio codec; a resolution or a
\* codec is in it only where the probe reports it; and besides it holds
\* at most one source tag and the flags PROPER and REPACK, each only where
\* the filename has it.
C16_ProbeOverFilename ==
    fn_pc = "done" =>
        LET words == {C16_Words[i] : i \in DOMAIN C16_Words}
            upper == StrUpper(fn_in.filename)
        IN  /\ C16_Probed \subseteq words
            /\ \A w \in words : StrUpper(w) \in C16_Claims => w \in C16_Probed
            /\ words \subseteq C16_Probed \cup C16_Sources \cup C16_Flags
            /\ Cardinality({i \in DOMAIN C16_Words : C16_Words[i] \in C16_Sources}) <= 1
            /\ \A w \in words \ C16_Probed : StrContains(upper, w)

\* the filename claims 1080p, x264 and AAC, the probe reports 720p, HEVC
\* and DTS, and the text is 720p BLURAY HEVC DTS
C16_Witness ==
    /\ fn_pc = "done"
    /\ fn_in.filename = <<"D","u","n","e",".","2","0","2","1",".","1","0","8","0","p",".","B","l","u","R","a","y",".","x","2","6","4",".","A","A","C","-","G","R","P",".","m","k","v">>
    /\ fn_in.media_info.resolution = Some(<<"7","2","0","p">>)
    /\ fn_in.media_info.video_codec = Some(<<"H","E","V","C">>)
    /\ fn_in.media_info.audio_codec = Some(<<"D","T","S">>)
    /\ fn_out.ret = Some(<<"7","2","0","p"," ","B","L","U","R","A","Y"," ","H","E","V","C"," ","D","T","S">>)

(***************************************************************************)
(* SpecRevert: revert_renames applied to a folder of renamed files whose   *)
(* backup files were written at their renames, after the user has removed  *)
(* some files and put others into the folder.                              *)
(***************************************************************************)
RevertedFiles ==
    { LibraryFolder \o << <<"D","u","n","e"," ","(","2","0","2","1",")"," ","{","t","m","d","b","-","1","}",".","m","k","v">> >>,
      OtherFile }

RevertedFirstNames ==
    { <<"d","u","n","e",".","2","0","2","1",".","m","k","v">>,
      <<" ","d","u","n","e",".","2","0","2","1",".","m","k","v">>,
      OtherFirstName }

\* the files a folder may hold: the renamed files and files under the
\* first names as revert_renames reads them
RevertFolderFiles ==
    RevertedFiles \cup { LibraryFolder \o <<ReadField(name)>> : name \in RevertedFirstNames }

\* the backup files written at the renames; firsts gives the first name of
\* each renamed file, <<>> for a file that has no backup file
BackupFilesOf(firsts) ==
    LET renamed == { f \in DOMAIN firsts : firsts[f] # <<>> }
    IN  [b \in { BackupPath(f) : f \in renamed } |->
            LET f == CHOOSE g \in renamed : BackupPath(g) = b
            IN  BackupFile(firsts[f], f)]

InitRevert ==
    /\ fn_pc = "renaming"
    /\ fn_in = [folder |-> LibraryFolder]
    /\ fn_out = <<>>
    /\ \E firsts \in [RevertedFiles -> RevertedFirstNames \cup {<<>>}] :
        backups = BackupFilesOf(firsts)
    /\ files \in SUBSET RevertFolderFiles
    /\ args = Arguments(<<>>, "auto", FALSE, FALSE, FALSE, FALSE, None, None, None, FALSE)
    /\ network_up = TRUE
    /\ served = 0
    /\ arrivals = 0
    /\ DriverIdle("idle")
    /\ PvfIdle
    /\ TitleIdle
    /\ MatchIdle

NextRevert == RevertCall

SpecRevert == InitRevert /\ [][NextRevert]_vars

(***************************************************************************)
(* SpecHandle: what the drivers do with one result of process_video_file,  *)
(* in every mode, for every kind of result, with and without a file at the *)
(* new path, and for every answer to the confirmation.                     *)
(***************************************************************************)
HandledFile == LibraryFolder \o << <<"d","u","n","e",".","2","0","2","1",".","m","k","v">> >>

\* the paths process_video_file may return for the file: its own path and
\* two formatted names
HandledTargets ==
    { HandledFile,
      LibraryFolder \o << <<"D","u","n","e"," ","(","2","0","2","1",")"," ","{","t","m","d","b","-","1","}",".","m","k","v">> >>,
      LibraryFolder \o << <<"D","u","n","e"," ","(","2","0","2","1",")"," ","{","t","m","d","b","-","1","}"," ","[","1","0","8","0","p","]",".","m","k","v">> >> }

HandledReturns ==
    { [kind |-> "none", path |-> <<>>], [kind |-> "raised", path |-> <<>>] }
        \cup { [kind |-> "path", path |-> target] : target \in HandledTargets }

\* what input() may return at "Confirm rename? (y/N): "
HandleResponses == ConfirmAnswers \cup { <<>>, <<"y","e","s">>, <<"y","e","s","!">> }

InitHandle ==
    /\ fn_pc = "call"
    /\ \E ret \in HandledReturns, dry_run \in BOOLEAN, rename \in BOOLEAN,
          skip_confirmation \in BOOLEAN :
        fn_in = [video_file |-> HandledFile, ret |-> ret,
                 options |-> [dry_run |-> dry_run, rename |-> rename,
                              skip_confirmation |-> skip_confirmation]]
    /\ fn_out = <<>>
    /\ \E others \in SUBSET (HandledTargets \ {HandledFile}) :
        /\ files = {HandledFile} \cup others
        /\ backups \in { <<>>, BackupFilesOf([f \in others |-> OtherFirstName]) }
    /\ args = Arguments(<<>>, "auto", FALSE, FALSE, FALSE, FALSE, None, None, None, FALSE)
    /\ network_up = TRUE
    /\ served = 0
    /\ arrivals = 0
    /\ DriverIdle("idle")
    /\ PvfIdle
    /\ TitleIdle
    /\ MatchIdle

\* lines 2306-2345 and 2419-2460
HandleResultCall ==
    /\ fn_pc = "call"
    /\ \E response \in HandleResponses :
        LET handled == handle_result(fn_in.video_file, fn_in.ret, fn_in.options,
                                     response, files, backups)
        IN  /\ files' = handled.files
            /\ backups' = handled.backups
            /\ fn_out' = [fn |-> "handle_result", response |-> response,
                          before |-> [files |-> files, backups |-> backups],
                          ret |-> [outcome |-> handled.outcome,
                                   renamed |-> handled.renamed]]
    /\ fn_pc' = "done"
    /\ UNCHANGED <<fn_in, args, network_up, served, arrivals,
                   titleVars, matchVars, driverVars, pvfVars>>

NextHandle == HandleResultCall

SpecHandle == InitHandle /\ [][NextHandle]_vars

(***************************************************************************)
(* Claims about the backup files, checked under SpecBackup.                *)
(***************************************************************************)
\* the backup files of the folder other than the one of the file renamed
\* before the chain began
C17_Sidecars == DOMAIN backups \ {BackupPath(OtherFile)}

C17_Confirmed ==
    /\ fn_pc = "reverted"
    /\ ~ fn_out.dry_run
    /\ StrLower(StrStrip(fn_out.response)) \in { <<"y">>, <<"y","e","s">> }

\* C17: after each rename of a chain that began at name A exactly one
\* backup file exists for the file, named after the current name and
\* recording A as the original and the current name as the current
\* filename; a confirmed revert_renames then leaves the file under the
\* name A and no backup file for it.
C17_FirstNamePreserved ==
    /\ fn_pc = "renaming" /\ fn_in.renames >= 1 =>
        /\ C17_Sidecars = {BackupPath(fn_in.current)}
        /\ backups[BackupPath(fn_in.current)] =
               [original_filename |-> PathName(fn_in.first),
                current_filename |-> PathName(fn_in.current)]
    /\ C17_Confirmed /\ fn_in.renames >= 1 =>
        /\ fn_in.first \in files
        /\ fn_in.current # fn_in.first => fn_in.current \notin files
        /\ C17_Sidecars = {}

(***************************************************************************)
(* Claims about the three tiers of _match_by_duration, checked under       *)
(* SpecMatch.  A candidate is a considered hit that yields a runtime; it   *)
(* is named by its position in results.                                    *)
(***************************************************************************)
RuntimeBearing == { i \in C3_Considered : RuntimeOfHit(i) # None }

Runtime(i) == RuntimeOfHit(i)[1]

RuntimeDiff(i) == Abs(duration_minutes - Runtime(i))

TitleMatching ==
    { i \in RuntimeBearing :
        titles_match(last_search_query, CandidateTitle(results[i])) }

Selected(i) == m_ret = Some(results[i])

\* i has the smallest runtime of the candidates of among that reach the target
ClosestFromAbove(i, among) ==
    /\ i \in among
    /\ Runtime(i) >= duration_minutes
    /\ \A j \in among : Runtime(j) >= duration_minutes => Runtime(i) <= Runtime(j)

\* i has the smallest absolute runtime difference of the candidates of among
ClosestOverall(i, among) ==
    /\ i \in among
    /\ \A j \in among : RuntimeDiff(i) <= RuntimeDiff(j)

\* a candidate of matching within 2 minutes of the target, if there is
\* one, makes the hit returned such a candidate
WithinRule(matching) ==
    (\E i \in matching : RuntimeDiff(i) <= 2)
        => \E i \in matching : Selected(i) /\ RuntimeDiff(i) <= 2

\* the hit returned is the candidate of among closest from above if any
\* of them reaches the target, else the one with the smallest difference
TierRule(among) ==
    IF \E i \in among : Runtime(i) >= duration_minutes
    THEN \E i \in among : Selected(i) /\ ClosestFromAbove(i, among)
    ELSE \E i \in among : Selected(i) /\ ClosestOverall(i, among)

\* the hit returned is a candidate of matching if there is one, chosen by
\* the tiers when none of them is within 2 minutes of the target
ExactRule(matching) ==
    matching # {} =>
        /\ \E i \in matching : Selected(i)
        /\ (\A i \in matching : RuntimeDiff(i) > 2) => TierRule(matching)

\* the call was made with two hits or more and has returned
ManyDone == m_pc = "done" /\ Len(results) >= 2

\* C18: with two hits or more, if a candidate whose title matches the
\* query is within 2 minutes of the target, the hit returned is a candidate
\* whose title matches and whose runtime is within 2 minutes of the target.
C18_WithinTolerance == ManyDone => WithinRule(TitleMatching)

\* a hit of another title, 1 minute off, comes first; then hits titled like
\* the query, the first 45 minutes off and the second within tolerance
C18_Witness ==
    /\ ManyDone
    /\ Len(results) = 3
    /\ duration_minutes = 156
    /\ 1 \in RuntimeBearing \ TitleMatching /\ Runtime(1) = 155
    /\ 2 \in TitleMatching /\ Runtime(2) = 201
    /\ 3 \in TitleMatching /\ Runtime(3) = 155
    /\ Selected(3)

\* C19: with two hits or more, whenever some candidate's title matches the
\* query the hit returned is such a candidate; and when none of them is
\* within 2 minutes of the target, it is the one closest from above if any
\* of them reaches the target, else the one with the smallest difference.
C19_ExactMatchTiers == ManyDone => ExactRule(TitleMatching)

\* three hits titled like the query, none within tolerance: 201 and 180
\* minutes above the target of 156 and 150 minutes, the closest, below it
C19_Witness ==
    /\ ManyDone
    /\ duration_minutes = 156
    /\ TitleMatching = {1, 2, 3}
    /\ Runtime(1) = 201 /\ Runtime(2) = 150 /\ Runtime(3) = 180
    /\ Selected(3)

\* C20: with two hits or more and candidates of which none has a title
\* matching the query, the hit returned is the candidate closest from above
\* if any candidate reaches the target, else the candidate with the
\* smallest difference.
C20_DurationTiers ==
    (ManyDone /\ RuntimeBearing # {} /\ TitleMatching = {}) => TierRule(RuntimeBearing)

\* no title matches a query that was made: the hit 1 minute below the
\* target loses to the one 24 minutes above it, which comes last
C20_Witness ==
    /\ ManyDone
    /\ duration_minutes = 156
    /\ last_search_query # <<>>
    /\ TitleMatching = {}
    /\ RuntimeBearing = {1, 2, 3}
    /\ Runtime(1) = 201 /\ Runtime(2) = 155 /\ Runtime(3) = 180
    /\ Selected(3)

(***************************************************************************)
(* Claims about the hits considered, checked under SpecLongList.           *)
(***************************************************************************)
\* C21: with two hits or more, the details requested are those of the
\* first five hits at most, one request each in the order of the list, and
\* the hit returned is one of these; a hit at position six or later is
\* never returned.
C21_TopFive ==
    ManyDone =>
        /\ m_fetched = [i \in 1..Min(5, Len(results)) |-> results[i].id]
        /\ \E i \in 1..Min(5, Len(results)) : Selected(i)
        /\ \A i \in 6..Len(results) : ~ Selected(i)

\* seven hits: the first five of another title or without a runtime, the
\* sixth and seventh titled like the query and 1 minute off the target
C21_Witness ==
    /\ ManyDone
    /\ Len(results) = 7
    /\ \A i \in 1..5 : results[i].title = Arrakis
    /\ RuntimeOfHit(1) = None /\ RuntimeOfHit(2) = Some(201)
    /\ \A i \in 6..7 : results[i].title = Dune /\ RuntimeOfHit(i) = Some(155)
    /\ Selected(2)

(***************************************************************************)
(* Claims about the queries of a search, checked under SpecSearch.         *)
(***************************************************************************)
C22_RomanNumerals ==
    { <<"i">>, <<"i","i">>, <<"i","i","i">>, <<"i","v">>, <<"v">>, <<"v","i">>,
      <<"v","i","i">>, <<"v","i","i","i">>, <<"i","x">>, <<"x">> }

C22_Numbers ==
    { <<"1">>, <<"2">>, <<"3">>, <<"4">>, <<"5">>, <<"6">>, <<"7">>, <<"8">>, <<"9">>,
      <<"1","0">> }

\* the last word of the title is a Roman numeral I..X or a number 1..10
C22_EndsInNumeral(title) ==
    /\ StrSplit(title) # <<>>
    /\ \/ StrLower(StrSplit(title)[Len(StrSplit(title))]) \in C22_RomanNumerals
       \/ StrSplit(title)[Len(StrSplit(title))] \in C22_Numbers

\* the hits of the k-th answer; none for a query not asked or not answered
C22_Hits(k) ==
    IF k \in DOMAIN fn_out.ret.responses /\ fn_out.ret.responses[k] # None
    THEN fn_out.ret.responses[k][1] ELSE <<>>

C22_NewHits ==
    SelectSeq(C22_Hits(2), LAMBDA hit : \A i \in DOMAIN C22_Hits(1) : C22_Hits(1)[i].id # hit.id)

\* C22: a second query is asked exactly when the last word of the title is
\* a Roman numeral I..X or a number 1..10; the merged list holds the hits of
\* the first query, then the hits of the second whose id is new, and no two
\* of its entries share an id.
C22_SecondQueryAndMerge ==
    fn_pc = "done" =>
        /\ Len(fn_out.ret.queries) = 2 <=> C22_EndsInNumeral(fn_in.title)
        /\ Len(fn_out.ret.queries) \in {0, 1, 2}
        /\ fn_out.ret.all_results = C22_Hits(1) \o C22_NewHits
        /\ \A i, j \in DOMAIN fn_out.ret.all_results :
                fn_out.ret.all_results[i].id = fn_out.ret.all_results[j].id => i = j

\* "Rocky II" asked as "Rocky II" and "Rocky 2", the answers sharing a hit
C22_Witness ==
    /\ fn_pc = "done"
    /\ fn_out.ret.queries = << <<"R","o","c","k","y"," ","I","I">>, <<"R","o","c","k","y"," ","2">> >>
    /\ fn_out.ret.responses = << Some(<<SearchHit(1), SearchHit(2)>>),
                                 Some(<<SearchHit(2), SearchHit(3)>>) >>
    /\ fn_out.ret.all_results = <<SearchHit(1), SearchHit(2), SearchHit(3)>>

(***************************************************************************)
(* Claims about _parse_full_date, checked under SpecDates.  The text is    *)
(* a, b and c with two separators and a suffix.                            *)
(***************************************************************************)
C23_Number(digits) == StrToInt(digits)

C23_LeapYear(y) == y % 4 = 0 /\ (y % 100 # 0 \/ y % 400 = 0)

C23_Days(y, m) ==
    CASE m \in {1, 3, 5, 7, 8, 10, 12} -> 31
      [] m \in {4, 6, 9, 11} -> 30
      [] m = 2 -> IF C23_LeapYear(y) THEN 29 ELSE 28
      [] OTHER -> 0

\* year, month and day, as digits, form a date of the calendar
C23_CalendarDate(year, month, day) ==
    /\ C23_Number(year) >= 1
    /\ C23_Number(day) >= 1
    /\ C23_Number(day) <= C23_Days(C23_Number(year), C23_Number(month))

\* 20YY below 50, else 19YY
C23_Century(yy) == IF C23_Number(yy) < 50 THEN <<"2","0">> \o yy ELSE <<"1","9">> \o yy

C23_Separated == fn_in.seps[1] \in {"-", ".", " "} /\ fn_in.seps[2] \in {"-", ".", " "}

\* the part number of the suffix: some blanks, PT in either case, digits
C23_Part ==
    LET rest == LStrip(fn_in.suffix)
    IN  IF /\ Len(rest) < Len(fn_in.suffix)
           /\ Len(rest) >= 3
           /\ StrUpper(SubSeq(rest, 1, 2)) = <<"P","T">>
        THEN Some(C23_Number(SubSeq(rest, 3, Len(rest))))
        ELSE None

\* the readings in the order claimed, each [year, month, day] as digits
\* where the shape of the text admits the reading
C23_Readings ==
    LET short(x) == Len(x) \in {1, 2}
        plain == fn_in.suffix = <<>>
        one(cond, y, m, d) == IF cond THEN << [year |-> y, month |-> m, day |-> d] >> ELSE <<>>
    IN  IF ~ C23_Separated THEN <<>>
        ELSE one(plain /\ Len(fn_in.a) = 4 /\ short(fn_in.b) /\ short(fn_in.c),
                 fn_in.a, fn_in.b, fn_in.c)
          \o one(plain /\ short(fn_in.a) /\ short(fn_in.b) /\ Len(fn_in.c) = 4,
                 fn_in.c, fn_in.b, fn_in.a)
          \o one((plain \/ C23_Part # None) /\ short(fn_in.a) /\ short(fn_in.b) /\ Len(fn_in.c) = 2,
                 C23_Century(fn_in.c), fn_in.b, fn_in.a)
          \o one(plain /\ short(fn_in.a) /\ short(fn_in.b) /\ Len(fn_in.c) = 2,
                 C23_Century(fn_in.c), fn_in.a, fn_in.b)
          \o one(plain /\ short(fn_in.a) /\ short(fn_in.b) /\ Len(fn_in.c) = 4,
                 fn_in.c, fn_in.a, fn_in.b)

C23_Real == SelectSeq(C23_Readings, LAMBDA r : C23_CalendarDate(r.year, r.month, r.day))

\* C23: the readings are tried in the order YYYY-MM-DD, DD-MM-YYYY,
\* DD-MM-YY (with or without PT<n>), M-DD-YY, MM-DD-YYYY; the first whose
\* components form a calendar date is returned, with two-digit years below
\* 50 read as 20YY and the others as 19YY; none is returned when no reading
\* forms a calendar date, so every air_date returned is a calendar date.
C23_FirstRealReading ==
    fn_pc = "done" =>
        IF C23_Real = <<>> THEN fn_out.ret = None
        ELSE /\ fn_out.ret # None
             /\ fn_out.ret[1].air_date =
                    C23_Real[1].year \o <<"-">> \o ZFill(C23_Real[1].month, 2)
                        \o <<"-">> \o ZFill(C23_Real[1].day, 2)
             /\ fn_out.ret[1].year = C23_Number(C23_Real[1].year)
             /\ HasKey(fn_out.ret[1], "part_number") <=> C23_Part # None
             /\ C23_Part # None => fn_out.ret[1]["part_number"] = C23_Part[1]

\* 12-25-13: no date day-first, read month-first as 2013-12-25
C23_Witness ==
    /\ fn_pc = "done"
    /\ fn_in.text = <<"1","2","-","2","5","-","1","3">>
    /\ fn_out.ret # None
    /\ fn_out.ret[1].air_date = <<"2","0","1","3","-","1","2","-","2","5">>

(***************************************************************************)
(* Claims about the season, the episode and the movie folders of           *)
(* analyze_tv_show, checked under SpecAnalyze.                             *)
(***************************************************************************)
Analyzed == fn_pc = "done" /\ fn_out.fn = "analyze_tv_show"

\* what parse_filename yields for the name of the analyzed file
FromFilename ==
    parse_filename(PathName(fn_in.file_path), fn_in.parentheses_only,
                   fn_out.ret.in_movie_folder)

\* the season by the priority claimed, for the season and the episode of
\* the filename and the season of the folder, each None where not found
SeasonByPriority(season_from_file, episode_from_file, season_from_folder) ==
    IF season_from_file # None THEN Some(StrToInt(season_from_file[1]))
    ELSE IF episode_from_file # None /\ season_from_folder # None THEN season_from_folder
    ELSE IF episode_from_file # None THEN Some(1)
    ELSE None

\* C24: the season is the one of the filename if it yields one; else the
\* one of the folder if an episode was found and the parent is a season
\* folder; else 1 if an episode was found; else none -- season and episode
\* numbers 0 included.
C24_SeasonPriority ==
    Analyzed =>
        fn_out.ret.season =
            SeasonByPriority(FromFilename.season, FromFilename.episode,
                             fn_out.ret.season_from_folder)

\* the name, in small letters, is or holds one of movie_folder_names
NamesMovies(name) ==
    \E token \in movie_folder_names : StrContains(StrLower(name), token)

InNamedMovieFolder(path) ==
    \/ NamesMovies(PathName(Parent(path)))
    \/ NamesMovies(PathName(Parent(Parent(path))))

\* C25: for a file whose parent or grandparent folder name is or holds a
\* movie token, analyze_tv_show reports no episode, no season and no TV
\* show, whatever marker the filename carries.
C25_MovieFolderOverride ==
    (Analyzed /\ InNamedMovieFolder(fn_in.file_path)) =>
        /\ fn_out.ret.episode = None
        /\ fn_out.ret.season = None
        /\ ~ fn_out.ret.is_tv_show

\* the movie folder test of lines 1245-1248 for the analyzed path
AnalyzedInMovieFolder ==
    InMovieFolder(StrLower(PathName(Parent(fn_in.file_path))),
                  StrLower(PathName(Parent(Parent(fn_in.file_path)))))

\* C30: the result of analyze_tv_show never has a season without an
\* episode, and is_tv_show only with an episode and outside a movie folder.
C30_SeasonNeedsEpisode ==
    Analyzed =>
        /\ fn_out.ret.season # None => fn_out.ret.episode # None
        /\ fn_out.ret.is_tv_show =>
              fn_out.ret.episode # None /\ ~ AnalyzedInMovieFolder

\* a file marked S00E00 is a TV show of season 0 and episode 0
C30_Witness ==
    /\ Analyzed
    /\ fn_out.ret.season = Some(0)
    /\ fn_out.ret.episode = Some(0)
    /\ fn_out.ret.is_tv_show
    /\ ~ AnalyzedInMovieFolder

(***************************************************************************)
(* Symmetry of titles_match, checked under SpecTitles.                     *)
(***************************************************************************)
\* C27: titles_match gives the same answer with the two titles exchanged,
\* and a title matches itself.
C27_SymmetricReflexive ==
    tm_pc = "done" =>
        /\ tm_result = titles_match(api_title, search_title)
        /\ search_title = api_title => tm_result

\* titles_match("Rocky  2", "Rocky II"): only the query's converted form
\* equals the other side
C27_Witness ==
    /\ tm_pc = "done"
    /\ search_title = <<"R","o","c","k","y"," "," ","2">>
    /\ api_title = <<"R","o","c","k","y"," ","I","I">>
    /\ normalize_title_for_matching(search_title) = StrStrip(StrLower(api_title))
    /\ normalize_title_for_matching(api_title) # StrStrip(StrLower(search_title))
    /\ tm_result

(***************************************************************************)
(* Claims about revert_renames, checked under SpecRevert.  An entry is a   *)
(* backup file of the folder as it was before the call.                    *)
(***************************************************************************)
Reverted == fn_pc = "reverted" /\ fn_out.fn = "revert_renames"

\* the file an entry names as renamed, and the one it names as original
EntryCurrent(b) ==
    Parent(b) \o <<ReadField(fn_out.before.backups[b].current_filename)>>

EntryOriginal(b) ==
    Parent(b) \o <<ReadField(fn_out.before.backups[b].original_filename)>>

Entries == DOMAIN fn_out.before.backups

\* the loop ran and it was allowed to change the folder
RevertProceeds ==
    /\ ~ fn_out.dry_run
    /\ StrLower(StrStrip(fn_out.response)) \in { <<"y">>, <<"y","e","s">> }

\* the entry is left as it was: its backup file and, if it was there, its
\* renamed file
EntryUntouched(b) ==
    /\ b \in DOMAIN backups
    /\ backups[b] = fn_out.before.backups[b]
    /\ EntryCurrent(b) \in fn_out.before.files => EntryCurrent(b) \in files

\* C29: revert_renames never overwrites or loses a file: an entry whose
\* original filename exists is skipped and left as it was, an entry whose
\* renamed file is missing is counted failed and left as it was, a backup
\* file is deleted only when its file was moved back to the original name,
\* and a dry run or a declined confirmation changes no file and no backup
\* file.
C29_RevertKeepsFiles ==
    Reverted =>
        /\ Cardinality(files) = Cardinality(fn_out.before.files)
        /\ \A f \in fn_out.before.files :
              \/ f \in files
              \/ \E b \in Entries :
                    /\ EntryCurrent(b) = f
                    /\ EntryOriginal(b) \in files \ fn_out.before.files
        /\ \A b \in Entries :
              /\ EntryOriginal(b) \in fn_out.before.files => EntryUntouched(b)
              /\ EntryCurrent(b) \notin fn_out.before.files => EntryUntouched(b)
        /\ (fn_out.dry_run \/ RevertProceeds) =>
              /\ fn_out.ret.successful + fn_out.ret.failed + fn_out.ret.skipped
                    = Cardinality(Entries)
              /\ fn_out.ret.failed
                    = Cardinality({ b \in Entries : EntryCurrent(b) \notin fn_out.before.files })
              /\ fn_out.ret.skipped
                    >= Cardinality({ b \in Entries :
                            /\ EntryCurrent(b) \in fn_out.before.files
                            /\ EntryOriginal(b) \in fn_out.before.files })
        /\ \A b \in DOMAIN backups : b \in Entries /\ backups[b] = fn_out.before.backups[b]
        /\ \A b \in Entries \ DOMAIN backups :
              /\ RevertProceeds
              /\ EntryCurrent(b) \in fn_out.before.files \ files
              /\ EntryOriginal(b) \in files \ fn_out.before.files
        /\ ~ RevertProceeds =>
              /\ files = fn_out.before.files
              /\ backups = fn_out.before.backups

\* two renamed files record the same original name: a confirmed revert
\* moves one of them back, skips the other and keeps its backup file
C29_Witness ==
    /\ Reverted
    /\ RevertProceeds
    /\ Cardinality(Entries) = 2
    /\ \A b, c \in Entries : EntryOriginal(b) = EntryOriginal(c)
    /\ \A b \in Entries : EntryCurrent(b) \in fn_out.before.files
    /\ fn_out.ret = [successful |-> 1, failed |-> 0, skipped |-> 1]
    /\ Cardinality(DOMAIN backups) = 1

(***************************************************************************)
(* Claims about the name of a date-based file, checked under SpecPreview.  *)
(***************************************************************************)
\* the file in hand is date-based and a show was found for it
C26_Dated ==
    /\ parsed # None
    /\ parsed[1].is_date_based
    /\ parsed[1].media_type = "tv"
    /\ found # None

\* what the requests made to name the file may answer
C26_Answers == NameAnswers(Serving(served - 1), "tv", found[1].id, TRUE)

\* the episode the lookup by air date finds under these answers
C26_Lookup(answers) ==
    find_episode_by_date(answers.date_details, answers.season_responses,
                         parsed[1].air_date[1], parsed[1].part_number)

\* the titles an episode may be given: the one of the lookup, the one of
\* the episode's details, or none
C26_Titles(found_episode, answers) ==
    {None, Some(found_episode.episode_title)}
        \cup (IF answers.episode_details # None
              THEN {Some(answers.episode_details[1].name)} ELSE {})

\* the name made of the episode the lookup found: with its season and
\* episode number, or with the air date where one of the numbers is 0
C26_NameOf(found_episode, details, title, optional_info) ==
    IF found_episode.season_number # 0 /\ found_episode.episode_number # 0
    THEN format_tv_name(details.title, found_episode.season_number,
                        found_episode.episode_number, title, details.year,
                        Some(found[1].id), optional_info)
    ELSE format_date_based_tv_name(details.title, parsed[1].air_date[1], title,
                                   details.year, Some(found[1].id), optional_info,
                                   parsed[1].part_number)

\* C26: a date-based file is skipped when the lookup by air date finds no
\* episode, and a name returned for it is made of what the lookup found,
\* never of the default season 1 and episode 1.
C26_NamedByAirDate ==
    /\ (pvf_pc = "name" /\ C26_Dated) =>
          \A answers \in C26_Answers :
              C26_Lookup(answers) = None =>
                  pvf_tv_name(parsed[1], found[1],
                              process_optional_info(file_path, media_info),
                              answers) = None
    /\ (pvf_pc = "returned" /\ pvf_ret.kind = "path" /\ C26_Dated) =>
          \E answers \in C26_Answers :
              /\ answers.details # None
              /\ C26_Lookup(answers) # None
              /\ \E title \in C26_Titles(C26_Lookup(answers)[1], answers) :
                    pvf_ret.path =
                        pvf_new_path(file_path,
                            C26_NameOf(C26_Lookup(answers)[1], answers.details[1], title,
                                process_optional_info(file_path, media_info).combined_optional_info))

\* a date-based file was named; the answers that find no episode exist as
\* well
C26_Witness ==
    /\ pvf_pc = "returned"
    /\ pvf_ret.kind = "path"
    /\ C26_Dated
    /\ \E answers \in C26_Answers :
          answers.details # None /\ C26_Lookup(answers) = None

(***************************************************************************)
(* Claims about the renames of the drivers, checked under SpecHandle.      *)
(***************************************************************************)
Handled == fn_pc = "done" /\ fn_out.fn = "handle_result"

\* the folder is not as it was: a file or a backup file was written, moved
\* or removed
HandledChange ==
    files # fn_out.before.files \/ backups # fn_out.before.backups

HandledConfirmed ==
    \/ fn_in.options.skip_confirmation
    \/ StrLower(StrStrip(fn_out.response)) \in { <<"y">>, <<"y","e","s">> }

\* C28: a driver renames a file only in rename mode without dry-run, to a
\* new path that differs from the old one and holds no file, and with the
\* user's confirmation unless it is skipped; in dry-run and in preview
\* mode no file is renamed and no backup file written; a file at the new
\* path is never overwritten.
C28_RenameOnlyWhen ==
    Handled =>
        /\ HandledChange =>
              /\ fn_in.options.rename /\ ~ fn_in.options.dry_run
              /\ fn_in.ret.kind = "path"
              /\ fn_in.ret.path # fn_in.video_file
              /\ fn_in.ret.path \notin fn_out.before.files
              /\ HandledConfirmed
              /\ files = (fn_out.before.files \ {fn_in.video_file}) \cup {fn_in.ret.path}
              /\ DOMAIN backups = DOMAIN fn_out.before.backups \cup {BackupPath(fn_in.ret.path)}
        /\ (fn_in.options.dry_run \/ ~ fn_in.options.rename) => ~ HandledChange
        /\ Cardinality(files) = Cardinality(fn_out.before.files)
        /\ \A f \in fn_out.before.files \ {fn_in.video_file} : f \in files
        /\ fn_out.ret.renamed <=> HandledChange

\* in rename mode with the confirmation skipped, a file at the new path
\* keeps the file from being renamed
C28_Witness ==
    /\ Handled
    /\ fn_in.options.rename /\ ~ fn_in.options.dry_run
    /\ fn_in.options.skip_confirmation
    /\ fn_in.ret.kind = "path"
    /\ fn_in.ret.path # fn_in.video_file
    /\ fn_in.ret.path \in fn_out.before.files
    /\ fn_out.ret.outcome = "skipped"
    /\ ~ HandledChange

====
